---- MODULE Spec2Model ----
\* STR form extractor (extract_str.py): word filtering inside template boxes,
\* section-offset detection, children-table extraction and the two-stage
\* template selection of STRExtractor.
EXTENDS Integers, Sequences, FiniteSets, TLC

VARIABLES
    words,        \* page.extract_words(): the page's word list, in page order
    fields,       \* self.fields: field name -> box
    call,         \* the last query made on the page (operation and arguments)
    field_words,  \* extract_text_from_box: the local list after filter and sort
    result,       \* the value the last query returned
    prev,         \* the query made before the last one, and what it returned
    tables,       \* page.extract_tables(): the page's tables, in page order
    anak_table,   \* extract_anak_table: index of the table it accepted, 0 for none
    children,     \* extract_anak_table: the list it returned
    pdf_dimensions,      \* self.pdf_dimensions
    template_path,       \* self.template_path, set by __init__
    disk,                \* the template files: path -> parsed JSON content
    pdf_paths,           \* extract_multiple: the documents of the batch
    idx,                 \* extract_multiple: how many documents the loop has taken
    pc,                  \* where extract_from_pdf stands for the current document
    status_raw,          \* stage 1: the text extract_text_from_box returned
    status_perkahwinan,  \* stage 1: that text, upper-cased
    template_to_use,     \* stage 1: the file name of the variant chosen
    offsets,             \* the four section offsets
    all_fields,          \* the record being built
    pasangan_fields,     \* its spouse part
    waris_fields,        \* its next-of-kin part
    all_data,            \* extract_multiple: the records returned so far
    handles,             \* the documents whose pdfplumber handle is open
    failed,              \* extract_multiple: the documents whose processing raised
    exc,                 \* the exception on its way out of extract_from_pdf
    main_pc,             \* where main stands
    exit_status,         \* the exit status of the run, once it has ended
    output,              \* the output file, once it has been written
    boxes,               \* TemplateBuilder.boxes: name -> BoundingBox
    template_type,       \* TemplateBuilder.template_type
    template_files,      \* the template files the builder reads and writes
    edits,               \* how many times the operator has edited a box
    ops                  \* the builder's operations since the last save, while they are a save and reloads

qvars == <<words, fields, call, field_words, result, prev>>
qvars_but_fields == <<words, call, field_words, result, prev>>
tvars == <<tables, anak_table, children>>
mvars == <<main_pc, exit_status, output>>
bvars == <<boxes, template_type, template_files, edits, ops>>
pvars == <<pdf_dimensions, template_path, disk, pdf_paths, idx, pc, status_raw,
           status_perkahwinan, template_to_use, offsets, all_fields,
           pasangan_fields, waris_fields, all_data, handles, failed, exc, mvars>>
vars == <<words, fields, call, field_words, result, prev, tables, anak_table, children,
          pdf_dimensions, template_path, disk, pdf_paths, idx, pc, status_raw,
          status_perkahwinan, template_to_use, offsets, all_fields,
          pasangan_fields, waris_fields, all_data, handles, failed, exc,
          main_pc, exit_status, output, boxes, template_type, template_files, edits, ops>>

-----------------------------------------------------------------------------
\* Coordinates.  pdfplumber reports float coordinates; they are kept in fixed
\* point, Sub units to the pixel, so that sub-pixel positions exist.

Sub == 4
Px(n) == n * Sub

Abs(n) == IF n < 0 THEN -n ELSE n

\* Python int(d) of a difference of d units: truncation toward zero, in pixels.
PyInt(d) == IF d >= 0 THEN d \div Sub ELSE -((-d) \div Sub)

-----------------------------------------------------------------------------
\* Strings are sequences of one-character strings.

Str_EMPTY == << >>
SP == " "

LowerAlphabet == <<"a","b","c","d","e","f","g","h","i","j","k","l","m",
                   "n","o","p","q","r","s","t","u","v","w","x","y","z">>
UpperAlphabet == <<"A","B","C","D","E","F","G","H","I","J","K","L","M",
                   "N","O","P","Q","R","S","T","U","V","W","X","Y","Z">>
LowerLetters == {LowerAlphabet[i] : i \in DOMAIN LowerAlphabet}
UpperLetters == {UpperAlphabet[i] : i \in DOMAIN UpperAlphabet}
ToUpper == [c \in LowerLetters |->
               UpperAlphabet[CHOOSE i \in DOMAIN LowerAlphabet : LowerAlphabet[i] = c]]
ToLower == [c \in UpperLetters |->
               LowerAlphabet[CHOOSE i \in DOMAIN UpperAlphabet : UpperAlphabet[i] = c]]

\* str.upper(), character by character.
UpperChar(c) == IF c \in LowerLetters THEN ToUpper[c] ELSE c
Upper(s) == [i \in 1..Len(s) |-> UpperChar(s[i])]

\* str.lower(), character by character.
LowerChar(c) == IF c \in UpperLetters THEN ToLower[c] ELSE c
Lower(s) == [i \in 1..Len(s) |-> LowerChar(s[i])]

\* Python's `sub in s`.
Contains(sub, s) ==
    \E i \in 0..(Len(s) - Len(sub)) : \A k \in 1..Len(sub) : s[i + k] = sub[k]

IsSpace(c) == c \in {" ", "\t", "\n"}

\* str.lstrip(), str.rstrip(), str.strip() with no argument.
RECURSIVE LStrip(_)
LStrip(s) == IF s # << >> /\ IsSpace(Head(s)) THEN LStrip(Tail(s)) ELSE s
RECURSIVE RStrip(_)
RStrip(s) ==
    IF s # << >> /\ IsSpace(s[Len(s)]) THEN RStrip(SubSeq(s, 1, Len(s) - 1)) ELSE s
Strip(s) == RStrip(LStrip(s))

\* str.rstrip(chars).
RECURSIVE RStripChars(_, _)
RStripChars(s, chars) ==
    IF s # << >> /\ s[Len(s)] \in chars
    THEN RStripChars(SubSeq(s, 1, Len(s) - 1), chars)
    ELSE s

\* sep.join(parts).
RECURSIVE Join(_, _)
Join(sep, parts) ==
    IF parts = << >> THEN << >>
    ELSE IF Len(parts) = 1 THEN parts[1]
    ELSE parts[1] \o sep \o Join(sep, Tail(parts))

\* str.split() with no argument: the maximal runs of non-whitespace characters.
RECURSIVE SplitFrom(_, _, _)
SplitFrom(s, cur, acc) ==
    IF s = << >> THEN (IF cur = << >> THEN acc ELSE Append(acc, cur))
    ELSE IF IsSpace(Head(s))
         THEN SplitFrom(Tail(s), << >>, IF cur = << >> THEN acc ELSE Append(acc, cur))
         ELSE SplitFrom(Tail(s), Append(cur, Head(s)), acc)
Split(s) == SplitFrom(s, << >>, << >>)

-----------------------------------------------------------------------------
\* extract_text_from_box

TrailingPunctuation == {":", ";", ",", "."}

DEFAULT_TOLERANCE == 5
JANTINA_TOLERANCE == 3

Box(x, y, w, h) == [x |-> x, y |-> y, width |-> w, height |-> h]

\* The filter of the list comprehension.
InBoxMutX1(word, box, y_offset, tolerance) ==
    /\ box.x <= word.x0 /\ word.x1 <= box.x + box.width
    /\ box.y + y_offset - tolerance <= word.top
    /\ word.top <= box.y + y_offset + box.height + tolerance
InBoxMutStrict(word, box, y_offset, tolerance) ==
    /\ box.x < word.x0 /\ word.x0 < box.x + box.width
    /\ box.y + y_offset - tolerance < word.top
    /\ word.top < box.y + y_offset + box.height + tolerance
InBox(word, box, y_offset, tolerance) ==
    /\ box.x <= word.x0 /\ word.x0 <= box.x + box.width
    /\ box.y + y_offset - tolerance <= word.top
    /\ word.top <= box.y + y_offset + box.height + tolerance

RECURSIVE FilterWords(_, _, _, _)
FilterWords(ws, box, y_offset, tolerance) ==
    IF ws = << >> THEN << >>
    ELSE (IF InBox(Head(ws), box, y_offset, tolerance) THEN <<Head(ws)>> ELSE << >>)
         \o FilterWords(Tail(ws), box, y_offset, tolerance)

\* The sort key (w['top'], w['x0']), compared as Python compares tuples.
KeyLess(a, b) == a.top < b.top \/ (a.top = b.top /\ a.x0 < b.x0)

\* list.sort(key=...) is stable: a word goes after every word whose key is not
\* greater than its own.
RECURSIVE InsertWord(_, _)
InsertWord(sorted, w) ==
    IF sorted = << >> THEN <<w>>
    ELSE IF KeyLess(w, Head(sorted)) THEN <<w>> \o sorted
    ELSE <<Head(sorted)>> \o InsertWord(Tail(sorted), w)
RECURSIVE SortFrom(_, _)
SortFrom(ws, sorted) ==
    IF ws = << >> THEN sorted ELSE SortFrom(Tail(ws), InsertWord(sorted, Head(ws)))
SortWords(ws) == SortFrom(ws, << >>)

Texts(ws) == [i \in 1..Len(ws) |-> ws[i].text]

\* The clean-up of the joined text: strip, collapse whitespace, strip the
\* trailing punctuation.
CleanText(text) == RStripChars(Join(<<SP>>, Split(Strip(text))), TrailingPunctuation)

\* field_words after the filter and the sort.
FieldWords(ws, box, y_offset, tolerance) ==
    SortWords(FilterWords(ws, box, y_offset, tolerance))

ExtractTextFromBox(ws, box, y_offset, tolerance) ==
    LET fw == FieldWords(ws, box, y_offset, tolerance)
    IN  IF fw # << >> THEN CleanText(Join(<<SP>>, Texts(fw))) ELSE Str_EMPTY

\* The page's word list after a call: the comprehension builds a new list and
\* the sort works on that list, so the list the page gave is as it was.
WordsAfterExtractMutInPlace(ws, box, y_offset, tolerance) == SortWords(ws)
WordsAfterExtract(ws, box, y_offset, tolerance) == ws

-----------------------------------------------------------------------------
\* detect_section_offset

T_MAKLUMAT == <<"M","A","K","L","U","M","A","T">>
T_PEMOHON == <<"P","E","M","O","H","O","N">>
T_PASANGAN == <<"P","A","S","A","N","G","A","N">>
T_ANAK == <<"A","N","A","K">>
T_WARIS == <<"W","A","R","I","S">>

H_PEMOHON == <<"m","a","k","l","u","m","a","t","_","p","e","m","o","h","o","n","_","h","e","a","d","e","r">>
H_PASANGAN == <<"m","a","k","l","u","m","a","t","_","p","a","s","a","n","g","a","n","_","h","e","a","d","e","r">>
H_ANAK == <<"m","a","k","l","u","m","a","t","_","a","n","a","k","_","h","e","a","d","e","r">>
H_WARIS == <<"m","a","k","l","u","m","a","t","_","w","a","r","i","s","_","h","e","a","d","e","r">>
HeaderNames == {H_PEMOHON, H_PASANGAN, H_ANAK, H_WARIS}

\* Field names are strings too: the code tests their prefixes and suffixes.
F_NAMA == <<"n","a","m","a">>
F_JANTINA == <<"j","a","n","t","i","n","a">>
F_STATUS == <<"s","t","a","t","u","s","_","p","e","r","k","a","h","w","i","n","a","n">>
F_PASANGAN_NAMA == <<"p","a","s","a","n","g","a","n","_","n","a","m","a">>
F_WARIS_NAMA == <<"w","a","r","i","s","_","n","a","m","a">>

\* header_keywords.get(header_field_name, ['MAKLUMAT'])
HeaderKeywords(h) ==
    CASE h = H_PEMOHON  -> {T_MAKLUMAT, T_PEMOHON}
      [] h = H_PASANGAN -> {T_MAKLUMAT, T_PASANGAN}
      [] h = H_ANAK     -> {T_MAKLUMAT, T_ANAK}
      [] h = H_WARIS    -> {T_MAKLUMAT, T_WARIS}
      [] OTHER          -> {T_MAKLUMAT}

X_MARGIN == 20
SEARCH_RANGE == 50
SEARCH_RANGE_WARIS == 200
SAME_LINE == 5

SearchRangeMutWide(h) == Px(SEARCH_RANGE_WARIS)
SearchRangeMutBeyond(h) == Px(SEARCH_RANGE_WARIS) + Px(SEARCH_RANGE)
SearchRange(h) == IF h = H_WARIS THEN Px(SEARCH_RANGE_WARIS) ELSE Px(SEARCH_RANGE)

\* template_x - 20 <= word_x <= template_x + template_w + 20
InXRange(w, tb) ==
    tb.x - Px(X_MARGIN) <= w.x0 /\ w.x0 <= tb.x + tb.width + Px(X_MARGIN)

\* abs(word_y - template_y) <= search_range
InYRange(w, tb, h) == Abs(w.top - tb.y) <= SearchRange(h)

\* maklumat_words and waris_words: the elif keeps a word that contains
\* MAKLUMAT out of waris_words.
MaklumatWords(ws, tb) ==
    SelectSeq(ws, LAMBDA w : /\ InXRange(w, tb) /\ InYRange(w, tb, H_WARIS)
                             /\ Contains(T_MAKLUMAT, Upper(w.text)))
WarisWords(ws, tb) ==
    SelectSeq(ws, LAMBDA w : /\ InXRange(w, tb) /\ InYRange(w, tb, H_WARIS)
                             /\ ~Contains(T_MAKLUMAT, Upper(w.text))
                             /\ Contains(T_WARIS, Upper(w.text)))

\* actual_y of a pair found on the same line.
WarisActualYMutWaris(mak, war) == war.top
WarisActualY(mak, war) == mak.top

\* The nested loops over maklumat_words and waris_words: the first pair within
\* 5px vertically decides; no pair gives 0.
DetectWarisOffset(ws, tb) ==
    LET maks == MaklumatWords(ws, tb)
        wars == WarisWords(ws, tb)
        pairs == {p \in (DOMAIN maks) \X (DOMAIN wars) :
                     Abs(maks[p[1]].top - wars[p[2]].top) <= Px(SAME_LINE)}
    IN  IF pairs = {} THEN 0
        ELSE LET first == CHOOSE p \in pairs : \A q \in pairs :
                              p[1] < q[1] \/ (p[1] = q[1] /\ p[2] <= q[2])
             IN  PyInt(WarisActualY(maks[first[1]], wars[first[2]]) - tb.y)

\* The other headers: the first word that matches any keyword inside the windows.
Candidates(ws, tb, h) ==
    SelectSeq(ws, LAMBDA w : /\ \E kw \in HeaderKeywords(h) : Contains(kw, Upper(w.text))
                             /\ InXRange(w, tb)
                             /\ InYRange(w, tb, h))

DetectGeneralOffset(ws, tb, h) ==
    LET candidates == Candidates(ws, tb, h)
    IN  IF candidates # << >> THEN PyInt(candidates[1].top - tb.y) ELSE 0

DetectSectionOffset(flds, ws, h) ==
    IF h \notin DOMAIN flds THEN 0
    ELSE IF h = H_WARIS THEN DetectWarisOffset(ws, flds[h])
    ELSE DetectGeneralOffset(ws, flds[h], h)

\* The page's word list after a call: the loops only read the words and
\* append tuples to lists of their own.
WordsAfterDetect(ws, h) == ws

-----------------------------------------------------------------------------
\* extract_anak_table

\* A table is a sequence of rows, a row a sequence of cells, a cell a string
\* or None.
NoneCell == <<"None">>

T_NAMA == <<"N","A","M","A">>
T_MYKAD == <<"M","Y","K","A","D">>
T_MYKID == <<"M","Y","K","I","D">>
T_UMUR == <<"U","M","U","R">>
T_nama == <<"n","a","m","a">>
T_mykad == <<"m","y","k","a","d">>
T_mykid == <<"m","y","k","i","d">>
T_umur == <<"u","m","u","r">>
T_status == <<"s","t","a","t","u","s">>
T_hubungan == <<"h","u","b","u","n","g","a","n">>

\* Python truth of a cell: None and the empty string are false.
Truthy(cell) == cell # NoneCell /\ cell # << >>

\* ' '.join([str(cell or '').upper() for cell in header])
HeaderText(header) ==
    Join(<<SP>>, [i \in 1..Len(header) |->
                     IF Truthy(header[i]) THEN Upper(header[i]) ELSE << >>])

\* The test that makes a table the children table.
IsAnakHeader(header) ==
    LET header_text == HeaderText(header)
    IN  /\ Contains(T_NAMA, header_text)
        /\ Contains(T_MYKAD, header_text)
        /\ Contains(T_UMUR, header_text)

\* all(cell is None or str(cell).strip() == '' for cell in row)
AllBlank(row) == \A i \in 1..Len(row) : row[i] = NoneCell \/ Strip(row[i]) = << >>

\* str(cell).strip() if cell else ""
CellValue(cell) == IF Truthy(cell) THEN Strip(cell) ELSE << >>

NoKey == "-"

\* The if/elif chain that normalises a column's field name.
CanonicalKeyMutNoHubungan(field_name) ==
    IF Contains(T_nama, field_name) THEN "nama"
    ELSE IF Contains(T_mykad, field_name) \/ Contains(T_mykid, field_name) THEN "no_mykad"
    ELSE IF Contains(T_umur, field_name) THEN "umur"
    ELSE IF Contains(T_status, field_name) THEN "status"
    ELSE NoKey
CanonicalKey(field_name) ==
    IF Contains(T_nama, field_name) THEN "nama"
    ELSE IF Contains(T_mykad, field_name) \/ Contains(T_mykid, field_name) THEN "no_mykad"
    ELSE IF Contains(T_umur, field_name) THEN "umur"
    ELSE IF Contains(T_status, field_name) \/ Contains(T_hubungan, field_name) THEN "status"
    ELSE NoKey

EmptyDict == [k \in {} |-> << >>]

\* The loop over enumerate(row): a later cell with the same key overwrites an
\* earlier one.
RECURSIVE ChildFrom(_, _, _, _)
ChildFrom(row, header, i, child) ==
    IF i > Len(row) THEN child
    ELSE LET key == IF i <= Len(header) /\ Truthy(header[i])
                    THEN CanonicalKey(Lower(Strip(header[i])))
                    ELSE NoKey
         IN  ChildFrom(row, header, i + 1,
                       IF key = NoKey THEN child
                       ELSE (key :> CellValue(row[i])) @@ child)

\* The loop over table[1:].
RECURSIVE ChildrenFrom(_, _, _)
ChildrenFrom(rows, header, acc) ==
    IF rows = << >> THEN acc
    ELSE LET row == Head(rows)
             child == ChildFrom(row, header, 1, EmptyDict)
         IN  ChildrenFrom(Tail(rows), header,
                          IF row = << >> \/ AllBlank(row) THEN acc
                          ELSE IF child # EmptyDict THEN Append(acc, child)
                          ELSE acc)

\* The loop over the tables: those that are empty or have fewer than two rows
\* are passed over, the first one with the children header is taken.
AcceptedTable(tbls) ==
    LET ok == {k \in DOMAIN tbls : Len(tbls[k]) >= 2 /\ IsAnakHeader(tbls[k][1])}
    IN  IF ok = {} THEN 0 ELSE CHOOSE k \in ok : \A m \in ok : k <= m

ChildrenOfTable(tbls, k) ==
    IF k = 0 THEN << >> ELSE ChildrenFrom(Tail(tbls[k]), tbls[k][1], << >>)

ExtractAnakTable(tbls) == ChildrenOfTable(tbls, AcceptedTable(tbls))

-----------------------------------------------------------------------------
\* extract_waris_section and extract_pasangan_section

\* The keys of the two sections and the labels searched for.
SK_hubungan == <<"h","u","b","u","n","g","a","n">>
SK_no_pengenalan == <<"n","o","_","p","e","n","g","e","n","a","l","a","n">>
SK_nama == <<"n","a","m","a">>
SK_no_telefon == <<"n","o","_","t","e","l","e","f","o","n">>
SK_jenis_pengenalan == <<"j","e","n","i","s","_","p","e","n","g","e","n","a","l","a","n">>
SK_no_mykad == <<"n","o","_","m","y","k","a","d">>
SK_negara_asal == <<"n","e","g","a","r","a","_","a","s","a","l">>
SK_jantina == <<"j","a","n","t","i","n","a">>
SK_pekerjaan == <<"p","e","k","e","r","j","a","a","n">>
SK_nama_bank == <<"n","a","m","a","_","b","a","n","k">>
SK_no_akaun_bank == <<"n","o","_","a","k","a","u","n","_","b","a","n","k">>

L_Hubungan == <<"H","u","b","u","n","g","a","n">>
L_NoPengenalan == <<"N","o"," ","P","e","n","g","e","n","a","l","a","n">>
L_Nama == <<"N","a","m","a">>
L_NoTelefon == <<"N","o"," ","T","e","l","e","f","o","n">>
L_JenisPengenalan == <<"J","e","n","i","s"," ","P","e","n","g","e","n","a","l","a","n">>
L_MyKAD == <<"M","y","K","A","D">>
L_NegaraAsal == <<"N","e","g","a","r","a"," ","A","s","a","l">>
L_NoDotTelefon == <<"N","o","."," ","T","e","l","e","f","o","n">>
L_Jantina == <<"J","a","n","t","i","n","a">>
L_Pekerjaan == <<"P","e","k","e","r","j","a","a","n">>
L_NamaBankPasangan == <<"N","a","m","a"," ","B","a","n","k"," ","P","a","s","a","n","g","a","n">>
L_NoAkaunBankPasangan == <<"N","o"," ","A","k","a","u","n"," ","B","a","n","k"," ","P","a","s","a","n","g","a","n">>

\* field_labels of the next-of-kin section and of the spouse section.
WarisLabels ==
    (SK_hubungan :> L_Hubungan) @@
    (SK_no_pengenalan :> L_NoPengenalan) @@
    (SK_nama :> L_Nama) @@
    (SK_no_telefon :> L_NoTelefon)
PasanganLabels ==
    (SK_nama :> L_Nama) @@
    (SK_jenis_pengenalan :> L_JenisPengenalan) @@
    (SK_no_mykad :> L_MyKAD) @@
    (SK_negara_asal :> L_NegaraAsal) @@
    (SK_no_telefon :> L_NoDotTelefon) @@
    (SK_jantina :> L_Jantina) @@
    (SK_pekerjaan :> L_Pekerjaan) @@
    (SK_nama_bank :> L_NamaBankPasangan) @@
    (SK_no_akaun_bank :> L_NoAkaunBankPasangan)

HEADER_LINE == 5
VALUE_LINE == 10

\* waris_header_y = None; None and 0 are both false in "if not waris_header_y".
NoHeaderY == 0

Max(a, b) == IF a >= b THEN a ELSE b

\* The MAKLUMAT words the inner loop meets for the word ws[i]: strictly less
\* than 5px apart vertically.
NearMaklumat(ws, i) ==
    {j \in DOMAIN ws : /\ Abs(ws[j].top - ws[i].top) < Px(HEADER_LINE)
                       /\ Contains(T_MAKLUMAT, Upper(ws[j].text))}

\* The loop that looks for the header: a word that holds MAKLUMAT and the
\* keyword ends it with its bottom; a word that holds the keyword alone ends it,
\* if a MAKLUMAT word is near (the first one in page order), with the lower of
\* the two bottoms, provided that value is true.
RECURSIVE HeaderBottomFrom(_, _, _)
HeaderBottomFrom(ws, i, kw) ==
    IF i > Len(ws) THEN NoHeaderY
    ELSE LET text == Upper(ws[i].text)
         IN  IF Contains(T_MAKLUMAT, text) /\ Contains(kw, text) THEN ws[i].bottom
             ELSE IF Contains(kw, text) /\ NearMaklumat(ws, i) # {}
             THEN LET j == CHOOSE n \in NearMaklumat(ws, i) :
                               \A m \in NearMaklumat(ws, i) : n <= m
                      y == Max(ws[i].bottom, ws[j].bottom)
                  IN  IF y # NoHeaderY THEN y ELSE HeaderBottomFrom(ws, i + 1, kw)
             ELSE HeaderBottomFrom(ws, i + 1, kw)

HeaderBottom(ws, kw) == HeaderBottomFrom(ws, 1, kw)

\* next_section_y: the top of the first word below the header that holds
\* MAKLUMAT and ANAK or WARIS; the page height if there is none.
NextSectionY(ws, header_y, page_height) ==
    LET below == {i \in DOMAIN ws :
                     /\ ws[i].top > header_y
                     /\ Contains(T_MAKLUMAT, Upper(ws[i].text))
                     /\ \/ Contains(T_ANAK, Upper(ws[i].text))
                        \/ Contains(T_WARIS, Upper(ws[i].text))}
    IN  IF below = {} THEN page_height
        ELSE ws[CHOOSE i \in below : \A k \in below : i <= k].top

\* page.within_bbox((0, y0, page.width, y1)).extract_words(): the words that
\* lie inside the band, in page order.
SectionWords(ws, y0, y1) ==
    SelectSeq(ws, LAMBDA w : w.top >= y0 /\ w.bottom <= y1)

\* The first word of the section that holds the label, 0 if there is none.
LabelIndex(sw, label) ==
    LET found == {i \in DOMAIN sw : Contains(Upper(label), Upper(sw[i].text))}
    IN  IF found = {} THEN 0 ELSE CHOOSE i \in found : \A k \in found : i <= k

\* value_parts of the next-of-kin section: the words less than 10px from the
\* label's top and right of its x1, colons left out.
WarisValueParts(sw, i) ==
    Texts(SelectSeq(sw, LAMBDA o : /\ Abs(o.top - sw[i].top) < Px(VALUE_LINE)
                                   /\ o.x0 > sw[i].x1
                                   /\ Strip(o.text) # <<":">>))

\* value_parts of the spouse section: the stripped texts, and words whose text
\* is part of the label left out as well.
PasanganValueParts(sw, i, label) ==
    LET parts == SelectSeq(sw, LAMBDA o : /\ Abs(o.top - sw[i].top) < Px(VALUE_LINE)
                                          /\ o.x0 > sw[i].x1
                                          /\ Strip(o.text) # <<":">>
                                          /\ ~Contains(Upper(Strip(o.text)), Upper(label)))
    IN  [n \in 1..Len(parts) |-> Strip(parts[n].text)]

\* ' '.join(value_parts).strip() if value_parts else ""
ValueOf(value_parts) ==
    IF value_parts # << >> THEN Strip(Join(<<SP>>, value_parts)) ELSE Str_EMPTY

\* The keys set in the loop over the labels: where the label was found, and
\* where label_found stayed False.
FoundKeys(sw, labels) == {k \in DOMAIN labels : LabelIndex(sw, labels[k]) # 0}
NotFoundKeysMutSkip(sw, labels) == {}
NotFoundKeys(sw, labels) == {k \in DOMAIN labels : LabelIndex(sw, labels[k]) = 0}

WarisData(sw) ==
    [k \in FoundKeys(sw, WarisLabels) \cup NotFoundKeys(sw, WarisLabels) |->
        IF k \in FoundKeys(sw, WarisLabels)
        THEN ValueOf(WarisValueParts(sw, LabelIndex(sw, WarisLabels[k])))
        ELSE Str_EMPTY]

PasanganData(sw) ==
    [k \in FoundKeys(sw, PasanganLabels) \cup NotFoundKeys(sw, PasanganLabels) |->
        IF k \in FoundKeys(sw, PasanganLabels)
        THEN ValueOf(PasanganValueParts(sw, LabelIndex(sw, PasanganLabels[k]),
                                        PasanganLabels[k]))
        ELSE Str_EMPTY]

ExtractWarisSection(ws, page_height) ==
    LET waris_header_y == HeaderBottom(ws, T_WARIS)
    IN  IF waris_header_y = NoHeaderY THEN EmptyDict
        ELSE WarisData(SectionWords(ws, waris_header_y, page_height))

ExtractPasanganSection(ws, page_height) ==
    LET pasangan_header_y == HeaderBottom(ws, T_PASANGAN)
    IN  IF pasangan_header_y = NoHeaderY THEN EmptyDict
        ELSE PasanganData(SectionWords(ws, pasangan_header_y,
                                       NextSectionY(ws, pasangan_header_y, page_height)))

-----------------------------------------------------------------------------
\* load_template, extract_from_pdf and extract_multiple

TPL_DEFAULT == <<"t","e","m","p","l","a","t","e",".","j","s","o","n">>
TPL_WITH == <<"t","e","m","p","l","a","t","e","_","w","i","t","h","_","p","a","s","a","n","g","a","n",".","j","s","o","n">>
TPL_WITHOUT == <<"t","e","m","p","l","a","t","e","_","w","i","t","h","o","u","t","_","p","a","s","a","n","g","a","n",".","j","s","o","n">>

T_KAHWIN == <<"K","A","H","W","I","N">>
P_HEADER == <<"_","h","e","a","d","e","r">>
P_WARIS == <<"w","a","r","i","s","_">>
P_PASANGAN == <<"p","a","s","a","n","g","a","n","_">>
P_ANAK == <<"a","n","a","k","_">>
K_ANAK == <<"a","n","a","k">>
K_PASANGAN == <<"p","a","s","a","n","g","a","n">>
K_WARIS == <<"w","a","r","i","s">>
K_SOURCE_FILE == <<"_","s","o","u","r","c","e","_","f","i","l","e">>

\* str.startswith, str.endswith
StartsWith(s, p) == Len(p) <= Len(s) /\ SubSeq(s, 1, Len(p)) = p
EndsWith(s, p) == Len(p) <= Len(s) /\ SubSeq(s, Len(s) - Len(p) + 1, Len(s)) = p

\* str.replace(old, new): every occurrence, left to right.
RECURSIVE Replace(_, _, _)
Replace(s, old, new) ==
    IF s = << >> THEN << >>
    ELSE IF StartsWith(s, old) THEN new \o Replace(SubSeq(s, Len(old) + 1, Len(s)), old, new)
    ELSE <<Head(s)>> \o Replace(Tail(s), old, new)

\* Path(p).name: what follows the last slash.
RECURSIVE PathName(_)
PathName(p) ==
    IF \E i \in DOMAIN p : p[i] = "/" THEN PathName(Tail(p)) ELSE p

\* Stage 1: extract_text_from_box(page, status_box), with the default
\* arguments, if the loaded template has the field; "" otherwise.
StatusRaw(flds, ws) ==
    IF F_STATUS \in DOMAIN flds
    THEN ExtractTextFromBox(ws, flds[F_STATUS], 0, Px(DEFAULT_TOLERANCE))
    ELSE Str_EMPTY

\* .upper() of the extracted text.
StatusTextMutAsIs(raw) == raw
StatusText(raw) == Upper(raw)

\* The variant chosen from the upper-cased status.
TemplateFor(status) == IF Contains(T_KAHWIN, status) THEN TPL_WITH ELSE TPL_WITHOUT

\* The test that guards the reload of stage 2.
NeedsReload(to_use, path) == to_use # PathName(path)

\* The offset and the tolerance of a field, by its name.
OffsetForMutPemohon(f, offs) == offs.pemohon
OffsetFor(f, offs) ==
    IF StartsWith(f, P_WARIS) THEN offs.waris
    ELSE IF StartsWith(f, P_PASANGAN) THEN offs.pasangan
    ELSE IF StartsWith(f, P_ANAK) THEN offs.anak
    ELSE offs.pemohon

ToleranceFor(f) == IF f = F_JANTINA THEN JANTINA_TOLERANCE ELSE DEFAULT_TOLERANCE

FieldText(flds, ws, offs, f) ==
    ExtractTextFromBox(ws, flds[f], Px(OffsetFor(f, offs)), Px(ToleranceFor(f)))

\* The fields the loop of stage 2 does not skip.
DataFields(flds) == {f \in DOMAIN flds : ~EndsWith(f, P_HEADER)}

\* The three dictionaries the loop of stage 2 fills.
GroupedFields(flds, ws, offs, prefix) ==
    LET members == {f \in DataFields(flds) : StartsWith(f, prefix)}
    IN  [k \in {Replace(f, prefix, << >>) : f \in members} |->
            FieldText(flds, ws, offs,
                      CHOOSE f \in members : Replace(f, prefix, << >>) = k)]

FlatFields(flds, ws, offs) ==
    [f \in {g \in DataFields(flds) : ~StartsWith(g, P_PASANGAN) /\ ~StartsWith(g, P_WARIS)}
        |-> FieldText(flds, ws, offs, f)]

NoException == "none"

\* load_template: open() needs the file, template['fields'] needs the key;
\* template.get('pdf_dimensions', {}) does not.
TemplateLoads(dsk, path) == path \in DOMAIN dsk /\ "fields" \in DOMAIN dsk[path]
LoadError(dsk, path) == IF path \notin DOMAIN dsk THEN "FileNotFoundError" ELSE "KeyError"
LoadedFields(dsk, path) == dsk[path].fields
LoadedDimensions(dsk, path) ==
    IF "pdf_dimensions" \in DOMAIN dsk[path] THEN dsk[path].pdf_dimensions ELSE << >>

\* The keys extract_text_from_box reads from a box before its try block, and
\* the keys detect_section_offset reads from a header box before its own.
BoxReadable(box) == {"x", "y", "width", "height"} \subseteq DOMAIN box
HeaderBoxReadable(box) == {"y", "x", "width"} \subseteq DOMAIN box

\* Stage 1 raises if the status box cannot be read.
Stage1Reads(flds) == F_STATUS \in DOMAIN flds => BoxReadable(flds[F_STATUS])
\* The four detections raise if a header box of the template cannot be read.
OffsetsRead(flds) == \A h \in HeaderNames \cap DOMAIN flds : HeaderBoxReadable(flds[h])
\* The loop over the fields raises at the first data box that cannot be read.
FieldsRead(flds) == \A f \in DataFields(flds) : BoxReadable(flds[f])

\* "with pdfplumber.open(pdf_path) as pdf": leaving the block, by its end or
\* by an exception, closes the document.
HandlesAfterExitMutLeak(hs, i) == hs
HandlesAfterExit(hs, i) == hs \ {i}

\* Where extract_multiple stands after its except clause.
PcAfterCatchMutAbort == "aborted"
PcAfterCatch == "loop"

\* The local variables of extract_from_pdf, and what no step changes.
dvars == <<status_raw, status_perkahwinan, template_to_use, offsets, all_fields,
           pasangan_fields, waris_fields>>
evars == <<template_path, disk, pdf_paths, bvars, exit_status, output>>

\* An exception leaves extract_from_pdf from inside the with block.
RaiseInside(e) ==
    /\ exc' = e
    /\ pc' = "raised"
    /\ handles' = HandlesAfterExit(handles, idx)

\* Where extract_from_pdf stands once the page is taken: at stage 1.
PcAfterOpenMutNoStage1 == "offsets"
PcAfterOpen == "stage1"

\* The next document is taken (the next one of extract_multiple, or the only
\* one of main); extract_from_pdf opens it and takes its first page.
OpenPdf ==
    /\ pc = "loop"
    /\ idx < Len(pdf_paths)
    /\ pdf_paths[idx + 1].readable
    /\ idx' = idx + 1
    /\ handles' = handles \cup {idx + 1}
    /\ words' = pdf_paths[idx + 1].words
    /\ tables' = pdf_paths[idx + 1].tables
    /\ pc' = PcAfterOpen
    /\ status_raw' = << >>
    /\ status_perkahwinan' = << >>
    /\ template_to_use' = << >>
    /\ offsets' = << >>
    /\ all_fields' = << >>
    /\ pasangan_fields' = << >>
    /\ waris_fields' = << >>
    /\ anak_table' = 0
    /\ children' = << >>
    /\ UNCHANGED <<fields, pdf_dimensions, all_data, failed, exc, main_pc, evars,
                   call, field_words, result, prev>>

\* pdfplumber.open raises: the file is missing or is not a PDF.
OpenFails ==
    /\ pc = "loop"
    /\ idx < Len(pdf_paths)
    /\ ~pdf_paths[idx + 1].readable
    /\ idx' = idx + 1
    /\ exc' = IF pdf_paths[idx + 1].exists THEN "PDFSyntaxError" ELSE "FileNotFoundError"
    /\ pc' = "raised"
    /\ UNCHANGED <<fields, pdf_dimensions, all_data, handles, failed, main_pc, evars,
                   dvars, qvars_but_fields, tvars>>

\* Stage 1: the status is read with the template that is loaded, and decides
\* the variant.
Stage1 ==
    /\ pc = "stage1"
    /\ Stage1Reads(fields)
    /\ status_raw' = StatusRaw(fields, words)
    /\ status_perkahwinan' = StatusText(status_raw')
    /\ template_to_use' = TemplateFor(status_perkahwinan')
    /\ pc' = "reload"
    /\ UNCHANGED <<fields, pdf_dimensions, idx, offsets, all_fields, pasangan_fields,
                   waris_fields, all_data, handles, failed, exc, main_pc, evars,
                   qvars_but_fields, tvars>>

\* Stage 1: the status box lacks a key.
Stage1Fails ==
    /\ pc = "stage1"
    /\ ~Stage1Reads(fields)
    /\ RaiseInside("KeyError")
    /\ UNCHANGED <<fields, pdf_dimensions, idx, all_data, failed, main_pc, evars, dvars,
                   qvars_but_fields, tvars>>

\* Stage 2 begins: the variant's file is loaded.
ReloadTemplate ==
    /\ pc = "reload"
    /\ NeedsReload(template_to_use, template_path)
    /\ TemplateLoads(disk, template_to_use)
    /\ fields' = LoadedFields(disk, template_to_use)
    /\ pdf_dimensions' = LoadedDimensions(disk, template_to_use)
    /\ pc' = "offsets"
    /\ UNCHANGED <<idx, all_data, handles, failed, exc, main_pc, evars, dvars,
                   qvars_but_fields, tvars>>

\* The variant's file cannot be opened, or has no key "fields": load_template
\* raises before it assigns anything.
ReloadFails ==
    /\ pc = "reload"
    /\ NeedsReload(template_to_use, template_path)
    /\ ~TemplateLoads(disk, template_to_use)
    /\ RaiseInside(LoadError(disk, template_to_use))
    /\ UNCHANGED <<fields, pdf_dimensions, idx, all_data, failed, main_pc, evars, dvars,
                   qvars_but_fields, tvars>>

\* The variant's file name is the name of the constructor's path: no reload.
KeepTemplate ==
    /\ pc = "reload"
    /\ ~NeedsReload(template_to_use, template_path)
    /\ pc' = "offsets"
    /\ UNCHANGED <<fields, pdf_dimensions, idx, all_data, handles, failed, exc, main_pc,
                   evars, dvars, qvars_but_fields, tvars>>

\* The four section offsets.
DetectOffsets ==
    /\ pc = "offsets"
    /\ OffsetsRead(fields)
    /\ offsets' = [pemohon |-> DetectSectionOffset(fields, words, H_PEMOHON),
                   pasangan |-> DetectSectionOffset(fields, words, H_PASANGAN),
                   anak |-> DetectSectionOffset(fields, words, H_ANAK),
                   waris |-> DetectSectionOffset(fields, words, H_WARIS)]
    /\ pc' = "fields"
    /\ UNCHANGED <<fields, pdf_dimensions, idx, status_raw, status_perkahwinan,
                   template_to_use, all_fields, pasangan_fields, waris_fields, all_data,
                   handles, failed, exc, main_pc, evars, qvars_but_fields, tvars>>

\* A header box of the template lacks a key.
DetectOffsetsFails ==
    /\ pc = "offsets"
    /\ ~OffsetsRead(fields)
    /\ RaiseInside("KeyError")
    /\ UNCHANGED <<fields, pdf_dimensions, idx, all_data, failed, main_pc, evars, dvars,
                   qvars_but_fields, tvars>>

\* The loop over self.fields.items().
ExtractFields ==
    /\ pc = "fields"
    /\ FieldsRead(fields)
    /\ all_fields' = FlatFields(fields, words, offsets)
    /\ pasangan_fields' = GroupedFields(fields, words, offsets, P_PASANGAN)
    /\ waris_fields' = GroupedFields(fields, words, offsets, P_WARIS)
    /\ pc' = "anak"
    /\ UNCHANGED <<fields, pdf_dimensions, idx, status_raw, status_perkahwinan,
                   template_to_use, offsets, all_data, handles, failed, exc, main_pc,
                   evars, qvars_but_fields, tvars>>

\* A data box of the template lacks a key: the loop ends with the exception
\* and the texts read so far are lost with the local dictionaries.
ExtractFieldsFails ==
    /\ pc = "fields"
    /\ ~FieldsRead(fields)
    /\ RaiseInside("KeyError")
    /\ UNCHANGED <<fields, pdf_dimensions, idx, all_data, failed, main_pc, evars, dvars,
                   qvars_but_fields, tvars>>

\* The children table, the grouped sections added to the record, and the end
\* of the with block.
ExtractAnak ==
    /\ pc = "anak"
    /\ anak_table' = AcceptedTable(tables)
    /\ children' = ChildrenOfTable(tables, anak_table')
    /\ all_fields' = (K_WARIS :> waris_fields) @@ (K_PASANGAN :> pasangan_fields)
                     @@ (K_ANAK :> children') @@ all_fields
    /\ handles' = HandlesAfterExit(handles, idx)
    /\ pc' = "return"
    /\ UNCHANGED <<fields, pdf_dimensions, idx, status_raw, status_perkahwinan,
                   template_to_use, offsets, pasangan_fields, waris_fields, all_data,
                   failed, exc, main_pc, evars, qvars_but_fields, tables>>

\* extract_from_pdf returns to extract_multiple, which adds the source file and
\* appends the record.
ReturnRecord ==
    /\ pc = "return"
    /\ main_pc # "single"
    /\ all_data' = Append(all_data, (K_SOURCE_FILE :> pdf_paths[idx].path) @@ all_fields)
    /\ pc' = "loop"
    /\ UNCHANGED <<fields, pdf_dimensions, idx, handles, failed, exc, main_pc, evars, dvars,
                   qvars_but_fields, tvars>>

\* The except clause of extract_multiple: the error is printed and the loop
\* goes on.
CatchError ==
    /\ pc = "raised"
    /\ main_pc # "single"
    /\ failed' = failed \cup {idx}
    /\ exc' = NoException
    /\ pc' = PcAfterCatch
    /\ UNCHANGED <<fields, pdf_dimensions, idx, all_data, handles, main_pc, evars, dvars,
                   qvars_but_fields, tvars>>

-----------------------------------------------------------------------------
\* main: pre-flight checks, extraction, save.

\* "for pdf_path in pdf_paths: if not pdf_path.exists()"
AllPdfsExistMutFirst(paths) == paths[1].exists
AllPdfsExist(paths) == \A i \in DOMAIN paths : paths[i].exists

EXIT_FAILURE == 1
EXIT_SUCCESS == 0

\* sys.exit(1), and an exception that nothing catches: the run ends with a
\* status that is not zero.
ExitWith(status) ==
    /\ main_pc' = "exit"
    /\ exit_status' = <<status>>

\* The template file does not exist.
MainTemplateMissing ==
    /\ main_pc = "check_template"
    /\ template_path \notin DOMAIN disk
    /\ ExitWith(EXIT_FAILURE)
    /\ UNCHANGED <<fields, pdf_dimensions, template_path, disk, pdf_paths, idx, pc, dvars,
                   all_data, handles, failed, exc, output, bvars, qvars_but_fields, tvars>>

\* STRExtractor(args.template)
MainConstruct ==
    /\ main_pc = "check_template"
    /\ TemplateLoads(disk, template_path)
    /\ fields' = LoadedFields(disk, template_path)
    /\ pdf_dimensions' = LoadedDimensions(disk, template_path)
    /\ main_pc' = "check_pdfs"
    /\ UNCHANGED <<idx, pc, dvars, all_data, handles, failed, exc, evars,
                   qvars_but_fields, tvars>>

\* The template file exists but has no key "fields": the constructor raises
\* and nothing catches the exception.
MainConstructFails ==
    /\ main_pc = "check_template"
    /\ template_path \in DOMAIN disk
    /\ ~TemplateLoads(disk, template_path)
    /\ exc' = LoadError(disk, template_path)
    /\ ExitWith(EXIT_FAILURE)
    /\ UNCHANGED <<fields, pdf_dimensions, template_path, disk, pdf_paths, idx, pc, dvars,
                   all_data, handles, failed, output, bvars, qvars_but_fields, tvars>>

\* A PDF path does not exist.
MainPdfMissing ==
    /\ main_pc = "check_pdfs"
    /\ ~AllPdfsExist(pdf_paths)
    /\ ExitWith(EXIT_FAILURE)
    /\ UNCHANGED <<fields, pdf_dimensions, template_path, disk, pdf_paths, idx, pc, dvars,
                   all_data, handles, failed, exc, output, bvars, qvars_but_fields, tvars>>

\* "if len(pdf_paths) == 1": extract_from_pdf is called on the only document,
\* extract_multiple otherwise.
MainExtract ==
    /\ main_pc = "check_pdfs"
    /\ AllPdfsExist(pdf_paths)
    /\ main_pc' = IF Len(pdf_paths) = 1 THEN "single" ELSE "multiple"
    /\ pc' = "loop"
    /\ UNCHANGED <<fields, pdf_dimensions, idx, dvars, all_data, handles, failed, exc,
                   evars, qvars_but_fields, tvars>>

\* extract_from_pdf returns to main: all_data = [data].
ReturnSingle ==
    /\ main_pc = "single"
    /\ pc = "return"
    /\ all_data' = <<all_fields>>
    /\ main_pc' = "save"
    /\ pc' = "none"
    /\ UNCHANGED <<fields, pdf_dimensions, idx, dvars, handles, failed, exc, evars,
                   qvars_but_fields, tvars>>

\* extract_from_pdf raises in main, where no try surrounds the call.
MainCrash ==
    /\ main_pc = "single"
    /\ pc = "raised"
    /\ ExitWith(EXIT_FAILURE)
    /\ pc' = "none"
    /\ UNCHANGED <<fields, pdf_dimensions, template_path, disk, pdf_paths, idx, dvars,
                   all_data, handles, failed, exc, output, bvars, qvars_but_fields, tvars>>

\* extract_multiple returns all_data to main.
ReturnAll ==
    /\ main_pc = "multiple"
    /\ pc = "loop"
    /\ idx = Len(pdf_paths)
    /\ main_pc' = "save"
    /\ pc' = "none"
    /\ UNCHANGED <<fields, pdf_dimensions, idx, dvars, all_data, handles, failed, exc,
                   evars, qvars_but_fields, tvars>>

\* What the save step writes: the record or the list as JSON; the list as
\* CSV, and no file if the list is empty.
SavedOutput(format, paths, data) ==
    IF format = "json"
    THEN <<[format |-> format, one |-> Len(paths) = 1,
            data |-> IF Len(paths) = 1 THEN <<data[1]>> ELSE data]>>
    ELSE IF data = << >> THEN << >>
    ELSE <<[format |-> format, one |-> FALSE, data |-> data]>>

\* The save step and the end of main.
MainSave ==
    \E format \in {"json", "csv"} :
        /\ main_pc = "save"
        /\ output' = SavedOutput(format, pdf_paths, all_data)
        /\ ExitWith(EXIT_SUCCESS)
        /\ UNCHANGED <<fields, pdf_dimensions, template_path, disk, pdf_paths, idx, pc,
                       dvars, all_data, handles, failed, exc, bvars, qvars_but_fields, tvars>>

-----------------------------------------------------------------------------
\* template_builder.py: BoundingBox and TemplateBuilder.  The builder's
\* coordinates are integers: PDF points in the files and in pdf_x, pdf_y,
\* pdf_width, pdf_height; canvas pixels in x, y, width, height.

MAX_WIDTH == 1000
MAX_HEIGHT == 1200
MAX_ZOOM == 2
MIN_SIDE == 10

\* int() of a quotient of integers, b > 0: truncation toward zero.
TruncDiv(a, b) == IF a >= 0 THEN a \div b ELSE -((-a) \div b)

\* self.scale = min(max_width / pdf_width, max_height / pdf_height, 2.0), kept
\* as a fraction.
ScaleOf(pdf_width, pdf_height) ==
    LET scale_w == [num |-> MAX_WIDTH, den |-> pdf_width]
        scale_h == [num |-> MAX_HEIGHT, den |-> pdf_height]
        zoom == [num |-> MAX_ZOOM, den |-> 1]
        Least(p, q) == IF p.num * q.den <= q.num * p.den THEN p ELSE q
    IN  Least(Least(scale_w, scale_h), zoom)

\* int(x * scale) and int(self.x / self.scale)
ToDisplay(v, scale) == TruncDiv(v * scale.num, scale.den)
ToPdf(v, scale) == TruncDiv(v * scale.den, scale.num)

\* BoundingBox.__init__ keeps the PDF coordinates it is given.
StoredPdfCoordMutFromDisplay(v, scale) == ToPdf(ToDisplay(v, scale), scale)
StoredPdfCoord(v, scale) == v

BoundingBox(x, y, width, height, scale) ==
    [pdf_x |-> StoredPdfCoord(x, scale), pdf_y |-> StoredPdfCoord(y, scale),
     pdf_width |-> StoredPdfCoord(width, scale),
     pdf_height |-> StoredPdfCoord(height, scale),
     x |-> ToDisplay(x, scale), y |-> ToDisplay(y, scale),
     width |-> ToDisplay(width, scale), height |-> ToDisplay(height, scale)]

UpdatePdfCoords(b, scale) ==
    [b EXCEPT !.pdf_x = ToPdf(b.x, scale), !.pdf_y = ToPdf(b.y, scale),
              !.pdf_width = ToPdf(b.width, scale), !.pdf_height = ToPdf(b.height, scale)]

MoveTo(b, x, y, scale) == UpdatePdfCoords([b EXCEPT !.x = x, !.y = y], scale)

ResizeCorner(b, corner_type, new_x, new_y, scale) ==
    UpdatePdfCoords(
        CASE corner_type = "nw" ->
                 [b EXCEPT !.width = Max(MIN_SIDE, b.width + (b.x - new_x)),
                           !.height = Max(MIN_SIDE, b.height + (b.y - new_y)),
                           !.x = new_x, !.y = new_y]
          [] corner_type = "ne" ->
                 [b EXCEPT !.width = Max(MIN_SIDE, new_x - b.x),
                           !.height = Max(MIN_SIDE, b.height + (b.y - new_y)),
                           !.y = new_y]
          [] corner_type = "sw" ->
                 [b EXCEPT !.width = Max(MIN_SIDE, b.width + (b.x - new_x)),
                           !.height = Max(MIN_SIDE, new_y - b.y),
                           !.x = new_x]
          [] corner_type = "se" ->
                 [b EXCEPT !.width = Max(MIN_SIDE, new_x - b.x),
                           !.height = Max(MIN_SIDE, new_y - b.y)],
        scale)

GetPdfBox(b) == [x |-> b.pdf_x, y |-> b.pdf_y, width |-> b.pdf_width, height |-> b.pdf_height]

\* json.dump writes an integer in decimal digits and json.load reads them back.
DigitChars == <<"0","1","2","3","4","5","6","7","8","9">>
RECURSIVE Digits(_)
Digits(n) ==
    IF n < 10 THEN <<DigitChars[n + 1]>>
    ELSE Digits(n \div 10) \o <<DigitChars[(n % 10) + 1]>>
JsonNumber(n) == IF n < 0 THEN <<"-">> \o Digits(-n) ELSE Digits(n)
DigitValue(c) == CHOOSE d \in 0..9 : DigitChars[d + 1] = c
RECURSIVE ParseDigits(_, _)
ParseDigits(s, acc) ==
    IF s = << >> THEN acc ELSE ParseDigits(Tail(s), acc * 10 + DigitValue(Head(s)))
ParseNumber(s) == IF Head(s) = "-" THEN -ParseDigits(Tail(s), 0) ELSE ParseDigits(s, 0)

JsonDumpBoxes(bs) == [n \in DOMAIN bs |-> [k \in DOMAIN bs[n] |-> JsonNumber(bs[n][k])]]
JsonLoadBoxes(js) == [n \in DOMAIN js |-> [k \in DOMAIN js[n] |-> ParseNumber(js[n][k])]]

\* self.template_files and get_current_template_file
TemplateFile(type) == IF type = "with_pasangan" THEN TPL_WITH ELSE TPL_WITHOUT

\* The first entries of INITIAL_BOXES.
INITIAL_BOXES ==
    (F_NAMA :> [x |-> 47, y |-> 86, width |-> 466, height |-> 15]) @@
    (F_JANTINA :> [x |-> 62, y |-> 153, width |-> 209, height |-> 17])

\* load_initial_boxes: the fields of the current template file, {} if it has no
\* key "fields", INITIAL_BOXES if there is no file.
LoadInitialBoxes(files, type) ==
    IF TemplateFile(type) \in DOMAIN files
    THEN IF "fields" \in DOMAIN files[TemplateFile(type)]
         THEN JsonLoadBoxes(files[TemplateFile(type)].fields)
         ELSE << >>
    ELSE INITIAL_BOXES

CreateBoxes(initial_boxes, scale) ==
    [n \in DOMAIN initial_boxes |->
        BoundingBox(initial_boxes[n].x, initial_boxes[n].y,
                    initial_boxes[n].width, initial_boxes[n].height, scale)]

\* The template save_template writes.
SavedTemplate(bs, pdf_width, pdf_height) ==
    [pdf_dimensions |-> [width |-> JsonNumber(pdf_width), height |-> JsonNumber(pdf_height)],
     fields |-> JsonDumpBoxes([n \in DOMAIN bs |-> GetPdfBox(bs[n])])]

\* The fields STRExtractor.load_template installs from a template file, in the
\* extractor's units.
ExtractorFields(file) ==
    LET bs == JsonLoadBoxes(file.fields)
    IN  [n \in DOMAIN bs |-> Box(Px(bs[n].x), Px(bs[n].y), Px(bs[n].width), Px(bs[n].height))]
ExtractorDimensions(file) ==
    IF "pdf_dimensions" \in DOMAIN file
    THEN [k \in DOMAIN file.pdf_dimensions |-> ParseNumber(file.pdf_dimensions[k])]
    ELSE << >>

-----------------------------------------------------------------------------
\* Word texts used on the model's pages.

T_COLON == <<":">>
T_Ali == <<"A","l","i">>
T_AbuComma == <<"A","b","u",",">>
T_bin == <<"b","i","n">>
T_X == <<"X">>
T_Y == <<"Y">>
T_Z == <<"Z">>
T_W == <<"W">>

Word(text, x0, top, x1, bottom) ==
    [text |-> text, x0 |-> x0, top |-> top, x1 |-> x1, bottom |-> bottom]

NoCall == [op |-> "none"]
NoPrev == [call |-> NoCall, result |-> 0]

\* No table extraction has been made.
TableIdle == tables = << >> /\ anak_table = 0 /\ children = << >>

\* No extractor has been constructed and no batch is being processed.
PipeIdle ==
    /\ pdf_dimensions = << >>
    /\ template_path = << >>
    /\ disk = << >>
    /\ pdf_paths = << >>
    /\ idx = 0
    /\ pc = "none"
    /\ status_raw = << >>
    /\ status_perkahwinan = << >>
    /\ template_to_use = << >>
    /\ offsets = << >>
    /\ all_fields = << >>
    /\ pasangan_fields = << >>
    /\ waris_fields = << >>
    /\ all_data = << >>
    /\ handles = {}
    /\ failed = {}
    /\ exc = NoException
    /\ main_pc = "none"
    /\ exit_status = << >>
    /\ output = << >>

\* No builder has been started.
BuilderIdle ==
    /\ boxes = << >>
    /\ template_type = "none"
    /\ template_files = << >>
    /\ edits = 0
    /\ ops = << >>

\* All word lists of at most n words drawn from pool.
RECURSIVE PagesOf(_, _)
PagesOf(pool, n) ==
    IF n = 0 THEN {<< >>}
    ELSE LET shorter == PagesOf(pool, n - 1)
         IN  shorter \cup {Append(p, w) : p \in {q \in shorter : Len(q) = n - 1}, w \in pool}

-----------------------------------------------------------------------------
\* Specification SpecBox: extract_text_from_box called on bounded pages.

MaxWords == 2

BoxA == Box(Px(100), Px(200), Px(50), Px(10))
BoxB == Box(Px(99), Px(199), Px(52), Px(12))
BoxSet == {BoxA, BoxB}
OffsetSet == {0, Px(3)}
ToleranceSet == {0, Px(5)}

\* Words on the edges of BoxA, one pixel outside it, and inside it; two of them
\* share a position, one sits a sub-pixel step lower, and some reach past the
\* right edge with x1.
BoxPool ==
    { Word(T_NAMA,     Px(100), Px(200),     Px(130), Px(208)),
      Word(T_COLON,    Px(150), Px(210),     Px(152), Px(218)),
      Word(T_Ali,      Px(120), Px(205),     Px(170), Px(230)),
      Word(T_AbuComma, Px(110), Px(205),     Px(118), Px(213)),
      Word(T_X,        Px(99),  Px(205),     Px(104), Px(213)),
      Word(T_Y,        Px(151), Px(205),     Px(156), Px(213)),
      Word(T_Z,        Px(120), Px(199),     Px(125), Px(207)),
      Word(T_W,        Px(120), Px(211),     Px(125), Px(219)),
      Word(T_COLON,    Px(120), Px(205),     Px(122), Px(213)),
      Word(T_bin,      Px(120), Px(205) + 1, Px(130), Px(213)) }

InitBox ==
    /\ words \in PagesOf(BoxPool, MaxWords)
    /\ fields = << >>
    /\ call = NoCall
    /\ field_words = << >>
    /\ result = Str_EMPTY
    /\ prev = NoPrev
    /\ TableIdle
    /\ PipeIdle
    /\ BuilderIdle

\* extract_text_from_box(page, box, y_offset, tolerance): what one call does
\* to the page, the template and the values it computes.
ExtractCall(box, y_offset, tolerance) ==
    /\ call' = [op |-> "extract", box |-> box, y_offset |-> y_offset,
                tolerance |-> tolerance]
    /\ field_words' = FieldWords(words, box, y_offset, tolerance)
    /\ result' = IF field_words' # << >>
                 THEN CleanText(Join(<<SP>>, Texts(field_words')))
                 ELSE Str_EMPTY
    /\ words' = WordsAfterExtract(words, box, y_offset, tolerance)
    /\ fields' = fields
    /\ pdf_dimensions' = pdf_dimensions

CallExtractTextFromBox ==
    \E box \in BoxSet, y_offset \in OffsetSet, tolerance \in ToleranceSet :
        ExtractCall(box, y_offset, tolerance) /\ UNCHANGED <<prev, tvars, pvars, bvars>>

NextBox == CallExtractTextFromBox

SpecBox == InitBox /\ [][NextBox]_vars

-----------------------------------------------------------------------------
\* Specification SpecOffset: detect_section_offset called on bounded pages.

T_anak == <<"a","n","a","k">>

HeaderBox(y) == Box(Px(90), Px(y), Px(80), Px(12))

\* A template with the four section headers, and one without the spouse and
\* kin headers.
HeadersAll ==
    (H_PEMOHON :> HeaderBox(470)) @@ (H_PASANGAN :> HeaderBox(480)) @@
    (H_ANAK :> HeaderBox(490)) @@ (H_WARIS :> HeaderBox(480))
HeadersSome ==
    (H_PEMOHON :> HeaderBox(470)) @@ (H_ANAK :> HeaderBox(490))
HeaderTemplates == {HeadersAll, HeadersSome}

\* Header words at and around the borders of the search windows
\* (x in [70, 190]; y within 50, or 200 for the kin header, of the box's y).
OffsetPool ==
    { Word(T_MAKLUMAT, Px(100), Px(500),     Px(150), Px(510)),
      Word(T_WARIS,    Px(160), Px(503),     Px(190), Px(513)),
      Word(T_WARIS,    Px(160), Px(506),     Px(190), Px(516)),
      Word(T_PEMOHON,  Px(100), Px(520),     Px(150), Px(530)),
      Word(T_MAKLUMAT, Px(100), Px(531),     Px(150), Px(541)),
      Word(T_anak,     Px(69),  Px(490),     Px(89),  Px(500)),
      Word(T_PASANGAN, Px(190), Px(477) + 1, Px(240), Px(487)),
      Word(T_MAKLUMAT, Px(100), Px(676),     Px(150), Px(686)),
      Word(T_WARIS,    Px(160), Px(680),     Px(190), Px(690)),
      Word(T_MAKLUMAT, Px(100), Px(681),     Px(150), Px(691)),
      Word(T_NAMA,     Px(100), Px(480),     Px(130), Px(490)),
      Word(T_MAKLUMAT \o T_WARIS, Px(100), Px(560), Px(190), Px(570)) }

InitOffset ==
    /\ words \in PagesOf(OffsetPool, MaxWords)
    /\ fields \in HeaderTemplates
    /\ call = NoCall
    /\ field_words = << >>
    /\ result = 0
    /\ prev = NoPrev
    /\ TableIdle
    /\ PipeIdle
    /\ BuilderIdle

\* detect_section_offset(page, header_field_name): what one call does to the
\* page, the template and the value it computes.
DetectCallOf(h) ==
    /\ call' = [op |-> "detect", header |-> h]
    /\ result' = DetectSectionOffset(fields, words, h)
    /\ words' = WordsAfterDetect(words, h)
    /\ fields' = fields
    /\ pdf_dimensions' = pdf_dimensions
    /\ UNCHANGED field_words

CallDetectSectionOffset ==
    \E h \in HeaderNames : DetectCallOf(h) /\ UNCHANGED <<prev, tvars, pvars, bvars>>

NextOffset == CallDetectSectionOffset

SpecOffset == InitOffset /\ [][NextOffset]_vars

-----------------------------------------------------------------------------
\* Specification SpecQuery: extract_text_from_box and detect_section_offset
\* called one after the other, in any order, on the same page and template.


QueryTemplate == HeadersAll @@ (F_NAMA :> Box(Px(90), Px(495), Px(80), Px(10)))

QueryPool ==
    { Word(T_MAKLUMAT, Px(100), Px(500), Px(150), Px(510)),
      Word(T_WARIS,    Px(160), Px(503), Px(190), Px(513)),
      Word(T_MAKLUMAT, Px(100), Px(490), Px(150), Px(500)),
      Word(T_PEMOHON,  Px(100), Px(470), Px(150), Px(480)),
      Word(T_COLON,    Px(160), Px(500), Px(162), Px(510)) }

InitQuery ==
    /\ words \in PagesOf(QueryPool, MaxWords)
    /\ fields = QueryTemplate
    /\ call = NoCall
    /\ field_words = << >>
    /\ result = 0
    /\ prev = NoPrev
    /\ TableIdle
    /\ PipeIdle
    /\ BuilderIdle

QueryExtractTextFromBox ==
    \E f \in {F_NAMA, H_WARIS}, y_offset \in {0, Px(20)} :
        /\ ExtractCall(fields[f], y_offset, Px(DEFAULT_TOLERANCE))
        /\ prev' = [call |-> call, result |-> result]
        /\ UNCHANGED <<tvars, pvars, bvars>>

QueryDetectSectionOffset ==
    \E h \in HeaderNames :
        /\ DetectCallOf(h)
        /\ prev' = [call |-> call, result |-> result]
        /\ UNCHANGED <<tvars, pvars, bvars>>

NextQuery == QueryExtractTextFromBox \/ QueryDetectSectionOffset

SpecQuery == InitQuery /\ [][NextQuery]_vars

-----------------------------------------------------------------------------
\* Specification SpecTable: extract_anak_table called on a page with a bounded
\* number of tables and of data rows.

MaxTables == 2
MaxRows == 2

S_Nama == <<"N","a","m","a">>
S_NoMyKadMyKid == <<"N","o","."," ","M","y","K","a","d","/","M","y","K","i","d">>
S_NoMyKid == <<"N","o","."," ","M","y","K","i","d">>
S_Umur == <<"U","m","u","r">>
S_Hubungan == <<"H","u","b","u","n","g","a","n">>
S_Status == <<"S","t","a","t","u","s">>
S_Bil == <<"B","i","l">>
S_NOMYKAD_UMUR == <<"N","O",".","M","Y","K","A","D"," ","U","M","U","R">>
S_Ali == <<"A","l","i">>
S_MyKadNo == <<"9","9","0","1","0","1","-","0","1","-","1","2","3","4">>
S_12 == <<"1","2">>
S_Anak == <<"A","n","a","k">>
S_7 == <<"7">>
S_SitiPadded == <<" ","S","i","t","i"," ">>
S_Blank == <<" ">>

\* Header rows: the form's header; one that names MyKid only; one without the
\* age column; one with an unmapped column, a None cell and two markers in one
\* cell.
HdrFull == <<S_Nama, S_NoMyKadMyKid, S_Umur, S_Hubungan>>
HdrMyKid == <<S_Nama, S_NoMyKid, S_Umur, S_Status>>
HdrNoUmur == <<T_NAMA, S_NoMyKadMyKid>>
HdrBil == <<S_Bil, NoneCell, T_NAMA, S_NOMYKAD_UMUR>>
HeaderPool == {HdrFull, HdrMyKid, HdrNoUmur, HdrBil}

\* Data rows: a full row; a blank row; a row of one cell; a row with padding,
\* a None cell and an empty cell.
RowAli == <<S_Ali, S_MyKadNo, S_12, S_Anak>>
RowBlank == << << >>, NoneCell, S_Blank, << >> >>
RowOne == <<S_7>>
RowSiti == <<S_SitiPadded, NoneCell, << >>, S_Anak>>
RowPool == {RowAli, RowBlank, RowOne, RowSiti}

\* The number of data rows of the page's tables.
RECURSIVE DataRows(_)
DataRows(tbls) ==
    IF tbls = << >> THEN 0
    ELSE (IF Head(tbls) = << >> THEN 0 ELSE Len(Head(tbls)) - 1) + DataRows(Tail(tbls))

\* The page, before it is read: no table yet.
InitTable ==
    /\ tables = << >>
    /\ anak_table = 0
    /\ children = << >>
    /\ words = << >>
    /\ fields = << >>
    /\ call = NoCall
    /\ field_words = << >>
    /\ result = 0
    /\ prev = NoPrev
    /\ PipeIdle
    /\ BuilderIdle

\* The page has one more table: a header row, or a table with no row at all.
PageTable ==
    /\ call = NoCall
    /\ Len(tables) < MaxTables
    /\ \E t \in {<<h>> : h \in HeaderPool} \cup {<< >>} : tables' = Append(tables, t)
    /\ UNCHANGED <<anak_table, children, qvars, pvars, bvars>>

\* The page's last table has one more data row.
PageRow ==
    /\ call = NoCall
    /\ tables # << >>
    /\ tables[Len(tables)] # << >>
    /\ DataRows(tables) < MaxRows
    /\ \E r \in RowPool :
           tables' = [tables EXCEPT ![Len(tables)] = Append(@, r)]
    /\ UNCHANGED <<anak_table, children, qvars, pvars, bvars>>

\* One call of extract_anak_table(page).
CallExtractAnakTable ==
    /\ call = NoCall
    /\ call' = [op |-> "anak"]
    /\ anak_table' = AcceptedTable(tables)
    /\ children' = ChildrenOfTable(tables, anak_table')
    /\ UNCHANGED <<tables, words, fields, field_words, result, prev, pvars, bvars>>

NextTable == PageTable \/ PageRow \/ CallExtractAnakTable

SpecTable == InitTable /\ [][NextTable]_vars

-----------------------------------------------------------------------------
\* Specification Spec: one STRExtractor processes a batch with extract_multiple.

MaxDocs == 2

TPL_DIR_WITH == <<"t","/","t","e","m","p","l","a","t","e","_","w","i","t","h","_","p","a","s","a","n","g","a","n",".","j","s","o","n">>

T_BERKAHWIN == <<"B","E","R","K","A","H","W","I","N">>
T_Berkahwin == <<"B","e","r","k","a","h","w","i","n">>
T_BUJANG == <<"B","U","J","A","N","G">>

A4 == [width |-> 595, height |-> 842]

\* The "with spouse" variant, and the "without spouse" variant, whose later
\* sections sit higher on the page.
FieldsWith ==
    (H_PEMOHON :> Box(Px(40), Px(60), Px(200), Px(12))) @@
    (F_NAMA :> Box(Px(47), Px(86), Px(466), Px(15))) @@
    (F_JANTINA :> Box(Px(62), Px(153), Px(209), Px(17))) @@
    (F_STATUS :> Box(Px(106), Px(276), Px(153), Px(15))) @@
    (H_PASANGAN :> Box(Px(40), Px(360), Px(200), Px(12))) @@
    (F_PASANGAN_NAMA :> Box(Px(60), Px(380), Px(200), Px(15))) @@
    (H_ANAK :> Box(Px(40), Px(420), Px(200), Px(12))) @@
    (H_WARIS :> Box(Px(40), Px(480), Px(200), Px(12))) @@
    (F_WARIS_NAMA :> Box(Px(60), Px(500), Px(200), Px(15)))
FieldsWithout ==
    (H_PEMOHON :> Box(Px(40), Px(60), Px(200), Px(12))) @@
    (F_NAMA :> Box(Px(47), Px(86), Px(466), Px(15))) @@
    (F_JANTINA :> Box(Px(62), Px(153), Px(209), Px(17))) @@
    (F_STATUS :> Box(Px(106), Px(276), Px(153), Px(15))) @@
    (H_ANAK :> Box(Px(40), Px(360), Px(200), Px(12))) @@
    (H_WARIS :> Box(Px(40), Px(420), Px(200), Px(12))) @@
    (F_WARIS_NAMA :> Box(Px(60), Px(440), Px(200), Px(15)))
\* A template of the operator's own that has no status_perkahwinan box.
FieldsNoStatus ==
    (H_PEMOHON :> Box(Px(40), Px(60), Px(200), Px(12))) @@
    (F_NAMA :> Box(Px(47), Px(86), Px(466), Px(15)))

Template(flds, dims) == [fields |-> flds, pdf_dimensions |-> dims]

\* The template files: both variants and a default template; the same with a
\* default template that lacks the status box; and a directory where the
\* "without spouse" file is missing.
DiskAll ==
    (TPL_DEFAULT :> Template(FieldsWith, A4)) @@
    (TPL_WITH :> Template(FieldsWith, A4)) @@
    (TPL_WITHOUT :> Template(FieldsWithout, << >>)) @@
    (TPL_DIR_WITH :> Template(FieldsWith, A4))
DiskNoStatus ==
    (TPL_DEFAULT :> Template(FieldsNoStatus, << >>)) @@
    (TPL_WITH :> Template(FieldsWith, A4)) @@
    (TPL_WITHOUT :> Template(FieldsWithout, << >>))
DiskNoWithout ==
    (TPL_DEFAULT :> Template(FieldsWith, A4)) @@
    (TPL_WITH :> Template(FieldsWith, A4))
\* Templates an operator has edited by hand: a data box without "height" in
\* the "with spouse" file and no key "fields" in the "without spouse" file;
\* and a status box without "y" in the default template, a header box without
\* "width" in the "with spouse" file and, in the "without spouse" file, a
\* kin field whose name holds the prefix twice.
F_WARIS_NAMA_WARIS_LAMA == <<"w","a","r","i","s","_","n","a","m","a","_","w","a","r","i","s","_","l","a","m","a">>
BoxNoHeight(x, y, w) == [x |-> x, y |-> y, width |-> w]
BoxNoY(x, w, h) == [x |-> x, width |-> w, height |-> h]
BoxNoWidth(x, y, h) == [x |-> x, y |-> y, height |-> h]
FieldsBadBox ==
    (F_PASANGAN_NAMA :> BoxNoHeight(Px(60), Px(380), Px(200))) @@ FieldsWith
FieldsBadStatus ==
    (F_STATUS :> BoxNoY(Px(106), Px(153), Px(15))) @@ FieldsWith
FieldsBadHeader ==
    (H_PASANGAN :> BoxNoWidth(Px(40), Px(360), Px(12))) @@ FieldsWith
FieldsPrefixTwice ==
    (F_WARIS_NAMA_WARIS_LAMA :> Box(Px(60), Px(440), Px(200), Px(15))) @@ FieldsWithout
DiskBadBox ==
    (TPL_DEFAULT :> Template(FieldsWith, A4)) @@
    (TPL_WITH :> Template(FieldsBadBox, A4)) @@
    (TPL_WITHOUT :> [pdf_dimensions |-> A4])
DiskByHand ==
    (TPL_DEFAULT :> Template(FieldsBadStatus, A4)) @@
    (TPL_WITH :> [fields |-> FieldsBadHeader]) @@
    (TPL_WITHOUT :> Template(FieldsPrefixTwice, A4))
DiskSet == {DiskAll, DiskNoStatus, DiskNoWithout, DiskBadBox, DiskByHand}

\* Pages: the section header, a name, and a marital status in the status box
\* (married, married in mixed case, single, or none).
W_Header == Word(T_MAKLUMAT, Px(44), Px(63), Px(100), Px(73))
W_Name == Word(T_Ali, Px(50), Px(93), Px(70), Px(103))
W_Spouse == Word(T_Ali, Px(64), Px(385), Px(84), Px(395))
StatusWord(t) == Word(t, Px(110), Px(280), Px(170), Px(290))

Doc(path, ws, tbls) ==
    [path |-> path, exists |-> TRUE, readable |-> TRUE, words |-> ws, tables |-> tbls]
\* A path pdfplumber.open raises on: a file that is not a PDF, or no file.
BadDoc(path, exists) ==
    [path |-> path, exists |-> exists, readable |-> FALSE, words |-> << >>, tables |-> << >>]

DocPool ==
    { Doc("married.pdf", <<W_Header, W_Name, StatusWord(T_BERKAHWIN), W_Spouse>>,
          << <<HdrFull, RowAli>> >>),
      Doc("married2.pdf", <<StatusWord(T_Berkahwin), W_Spouse>>, << >>),
      Doc("single.pdf", <<W_Name, StatusWord(T_BUJANG)>>, << >>),
      Doc("blank.pdf", <<W_Name>>, << >>),
      BadDoc("corrupt.pdf", TRUE),
      BadDoc("missing.pdf", FALSE) }

\* The batches of at least one and at most n documents.
RECURSIVE Batches(_)
Batches(n) ==
    IF n = 0 THEN {}
    ELSE {<<d>> : d \in DocPool}
         \cup {Append(b, d) : b \in Batches(n - 1), d \in DocPool}

\* STRExtractor(template_path): __init__ has loaded the template; the batch is
\* about to start.
Init ==
    /\ disk \in DiskSet
    /\ template_path \in {path \in DOMAIN disk : TemplateLoads(disk, path)}
    /\ fields = LoadedFields(disk, template_path)
    /\ pdf_dimensions = LoadedDimensions(disk, template_path)
    /\ handles = {}
    /\ failed = {}
    /\ exc = NoException
    /\ main_pc = "none"
    /\ exit_status = << >>
    /\ output = << >>
    /\ BuilderIdle
    /\ pdf_paths \in Batches(MaxDocs)
    /\ idx = 0
    /\ pc = "loop"
    /\ all_data = << >>
    /\ status_raw = << >>
    /\ status_perkahwinan = << >>
    /\ template_to_use = << >>
    /\ offsets = << >>
    /\ all_fields = << >>
    /\ pasangan_fields = << >>
    /\ waris_fields = << >>
    /\ words = << >>
    /\ call = NoCall
    /\ field_words = << >>
    /\ result = 0
    /\ prev = NoPrev
    /\ TableIdle

Next ==
    \/ OpenPdf
    \/ OpenFails
    \/ Stage1
    \/ Stage1Fails
    \/ ReloadTemplate
    \/ ReloadFails
    \/ KeepTemplate
    \/ DetectOffsets
    \/ DetectOffsetsFails
    \/ ExtractFields
    \/ ExtractFieldsFails
    \/ ExtractAnak
    \/ ReturnRecord
    \/ CatchError

Spec == Init /\ [][Next]_vars

-----------------------------------------------------------------------------
\* Specification SpecSection: extract_waris_section and
\* extract_pasangan_section called on bounded pages.

MaxSectionWords == 4

T_Waris == <<"W","a","r","i","s">>
T_MaklumatWaris == <<"M","a","k","l","u","m","a","t","W","a","r","i","s">>

\* Header words on one line, a kin word exactly 5px below the MAKLUMAT word, a
\* header in one word, and a label with a value to its right.
SectionPool ==
    { Word(T_MAKLUMAT,      Px(40),  Px(600), Px(100), Px(610)),
      Word(T_WARIS,         Px(105), Px(603), Px(140), Px(613)),
      Word(T_Waris,         Px(105), Px(605), Px(140), Px(615)),
      Word(T_PASANGAN,      Px(105), Px(602), Px(160), Px(612)),
      Word(T_MaklumatWaris, Px(40),  Px(620), Px(140), Px(630)),
      Word(S_Nama,          Px(40),  Px(640), Px(70),  Px(650)),
      Word(T_Ali,           Px(80),  Px(642), Px(100), Px(652)) }

InitSection ==
    /\ words \in PagesOf(SectionPool, MaxSectionWords)
    /\ fields = << >>
    /\ call = NoCall
    /\ field_words = << >>
    /\ result = 0
    /\ prev = NoPrev
    /\ TableIdle
    /\ PipeIdle
    /\ BuilderIdle

CallExtractWarisSection ==
    /\ call' = [op |-> "waris"]
    /\ result' = ExtractWarisSection(words, Px(A4.height))
    /\ UNCHANGED <<words, fields, field_words, prev, tvars, pvars, bvars>>

CallExtractPasanganSection ==
    /\ call' = [op |-> "pasangan"]
    /\ result' = ExtractPasanganSection(words, Px(A4.height))
    /\ UNCHANGED <<words, fields, field_words, prev, tvars, pvars, bvars>>

NextSection == CallExtractWarisSection \/ CallExtractPasanganSection

SpecSection == InitSection /\ [][NextSection]_vars

-----------------------------------------------------------------------------
\* Specification SpecBuilder: an operator edits, saves and reloads templates in
\* the builder, and the extractor loads what was saved.

MaxEdits == 1

\* The builder was started on an A4 page.
Scale == ScaleOf(A4.width, A4.height)

\* The operations kept in ops: a save, the reload that follows it at once, and
\* the save that follows that reload at once; anything else clears the record.
Push(history, op) ==
    IF op = "save"
    THEN IF history = <<"save", "refresh">> THEN <<"save", "refresh", "save">> ELSE <<"save">>
    ELSE IF op \in {"refresh", "load_template"} /\ history # << >>
            /\ history[Len(history)] = "save"
    THEN <<"save", op>>
    ELSE << >>

\* No template file, a "with spouse" file written earlier, or one whose only
\* box is one point high.
BuilderFiles ==
    { << >>,
      (TPL_WITH :> SavedTemplate(
          CreateBoxes((F_JANTINA :> [x |-> 62, y |-> 153, width |-> 209, height |-> 1]),
                      Scale),
          A4.width, A4.height)),
      (TPL_WITH :> SavedTemplate(
          CreateBoxes((F_NAMA :> [x |-> 50, y |-> 90, width |-> 400, height |-> 15]) @@
                      (F_PASANGAN_NAMA :> [x |-> 60, y |-> 380, width |-> 200, height |-> 15]),
                      Scale),
          A4.width, A4.height)) }

\* TemplateBuilder.__init__
InitBuilder ==
    /\ template_files \in BuilderFiles
    /\ template_type = "with_pasangan"
    /\ boxes = CreateBoxes(LoadInitialBoxes(template_files, template_type), Scale)
    /\ edits = 0
    /\ ops = << >>
    /\ words = << >>
    /\ fields = << >>
    /\ call = NoCall
    /\ field_words = << >>
    /\ result = 0
    /\ prev = NoPrev
    /\ TableIdle
    /\ PipeIdle

\* on_mouse_drag with no handle: the box under the pointer follows it.
DragBox ==
    \E name \in DOMAIN boxes, d \in {<<7, -3>>, <<-80, 0>>} :
        /\ edits < MaxEdits
        /\ boxes' = [boxes EXCEPT ![name] = MoveTo(@, @.x + d[1], @.y + d[2], Scale)]
        /\ edits' = edits + 1
        /\ ops' = Push(ops, "edit")
        /\ UNCHANGED <<template_type, template_files, qvars, tvars, pvars>>

\* on_mouse_drag with a handle: a corner of the selected box follows the pointer.
DragHandle ==
    \E name \in DOMAIN boxes, corner_type \in {"nw", "ne", "sw", "se"} :
        /\ edits < MaxEdits
        /\ boxes' = [boxes EXCEPT ![name] = ResizeCorner(@, corner_type, 90, 140, Scale)]
        /\ edits' = edits + 1
        /\ ops' = Push(ops, "edit")
        /\ UNCHANGED <<template_type, template_files, qvars, tvars, pvars>>

\* on_right_click, confirmed: the box is deleted.
DeleteBox ==
    \E name \in DOMAIN boxes :
        /\ edits < MaxEdits
        /\ boxes' = [n \in DOMAIN boxes \ {name} |-> boxes[n]]
        /\ edits' = edits + 1
        /\ ops' = Push(ops, "edit")
        /\ UNCHANGED <<template_type, template_files, qvars, tvars, pvars>>

SaveTemplate ==
    /\ template_files' = (TemplateFile(template_type) :>
                              SavedTemplate(boxes, A4.width, A4.height)) @@ template_files
    /\ ops' = Push(ops, "save")
    /\ UNCHANGED <<boxes, template_type, edits, qvars, tvars, pvars>>

\* refresh_boxes: load_initial_boxes, then create_boxes.
RefreshBoxes ==
    /\ boxes' = CreateBoxes(LoadInitialBoxes(template_files, template_type), Scale)
    /\ ops' = Push(ops, "refresh")
    /\ UNCHANGED <<template_type, template_files, edits, qvars, tvars, pvars>>

\* The other template is chosen: switch_template refreshes the boxes from its
\* file.
SwitchTemplate ==
    /\ template_type' = IF template_type = "with_pasangan" THEN "without_pasangan"
                        ELSE "with_pasangan"
    /\ boxes' = CreateBoxes(LoadInitialBoxes(template_files, template_type'), Scale)
    /\ ops' = Push(ops, "switch")
    /\ UNCHANGED <<template_files, edits, qvars, tvars, pvars>>

\* STRExtractor.load_template on the builder's current template file.
LoadSavedTemplate ==
    /\ TemplateFile(template_type) \in DOMAIN template_files
    /\ fields' = ExtractorFields(template_files[TemplateFile(template_type)])
    /\ pdf_dimensions' = ExtractorDimensions(template_files[TemplateFile(template_type)])
    /\ ops' = Push(ops, "load_template")
    /\ UNCHANGED <<boxes, template_type, template_files, edits, words, call, field_words,
                   result, prev, tvars, template_path, disk, pdf_paths, idx, pc, dvars,
                   all_data, handles, failed, exc, mvars>>

NextBuilder ==
    \/ DragBox
    \/ DragHandle
    \/ DeleteBox
    \/ SaveTemplate
    \/ RefreshBoxes
    \/ SwitchTemplate
    \/ LoadSavedTemplate

SpecBuilder == InitBuilder /\ [][NextBuilder]_vars

-----------------------------------------------------------------------------
\* Specification SpecMain: one run of main, from its pre-flight checks to its
\* exit.

TPL_NONE == <<"n","o","n","e",".","j","s","o","n">>

\* python extract_str.py -t template_path pdf_paths...
InitMain ==
    /\ disk \in DiskSet
    /\ template_path \in DOMAIN disk \cup {TPL_NONE}
    /\ pdf_paths \in Batches(MaxDocs)
    /\ main_pc = "check_template"
    /\ exit_status = << >>
    /\ output = << >>
    /\ fields = << >>
    /\ pdf_dimensions = << >>
    /\ idx = 0
    /\ pc = "none"
    /\ all_data = << >>
    /\ handles = {}
    /\ failed = {}
    /\ exc = NoException
    /\ status_raw = << >>
    /\ status_perkahwinan = << >>
    /\ template_to_use = << >>
    /\ offsets = << >>
    /\ all_fields = << >>
    /\ pasangan_fields = << >>
    /\ waris_fields = << >>
    /\ words = << >>
    /\ call = NoCall
    /\ field_words = << >>
    /\ result = 0
    /\ prev = NoPrev
    /\ TableIdle
    /\ BuilderIdle

NextMain ==
    \/ MainTemplateMissing
    \/ MainConstruct
    \/ MainConstructFails
    \/ MainPdfMissing
    \/ MainExtract
    \/ OpenPdf
    \/ OpenFails
    \/ Stage1
    \/ Stage1Fails
    \/ ReloadTemplate
    \/ ReloadFails
    \/ KeepTemplate
    \/ DetectOffsets
    \/ DetectOffsetsFails
    \/ ExtractFields
    \/ ExtractFieldsFails
    \/ ExtractAnak
    \/ ReturnRecord
    \/ CatchError
    \/ ReturnSingle
    \/ MainCrash
    \/ ReturnAll
    \/ MainSave

SpecMain == InitMain /\ [][NextMain]_vars

-----------------------------------------------------------------------------
\* Specification SpecStage2: extract_multiple on one document whose page has
\* section headers that are shifted against the template and words at the
\* borders of the shifted boxes.

F_ANAK_BILANGAN == <<"a","n","a","k","_","b","i","l","a","n","g","a","n">>

\* The "with spouse" template, with a field in each of the four sections, and
\* the "without spouse" template.
Stage2With ==
    (F_ANAK_BILANGAN :> Box(Px(60), Px(440), Px(200), Px(15))) @@ FieldsWith
Stage2Without ==
    (F_ANAK_BILANGAN :> Box(Px(60), Px(380), Px(200), Px(15))) @@ FieldsWithout
Stage2Disk ==
    (TPL_DEFAULT :> Template(Stage2With, A4)) @@
    (TPL_WITH :> Template(Stage2With, A4)) @@
    (TPL_WITHOUT :> Template(Stage2Without, A4))

\* What every page of the pool begins with: nothing, the status, the kin
\* header 12 below its box, or both.
W_KinHeader == <<Word(T_MAKLUMAT, Px(44), Px(492), Px(100), Px(502)),
                 Word(T_WARIS, Px(110), Px(492), Px(150), Px(502))>>
Stage2Heads ==
    { << >>, <<StatusWord(T_BERKAHWIN)>>, W_KinHeader,
      <<StatusWord(T_BERKAHWIN)>> \o W_KinHeader }

\* Headers 3 below, 8 below and 6 above their boxes, and words that lie in
\* their boxes only with the offset, or the tolerance, of their own section.
Stage2Pool ==
    { W_Header,
      Word(T_PASANGAN, Px(44), Px(368), Px(100), Px(378)),
      Word(T_ANAK, Px(44), Px(414), Px(80), Px(424)),
      Word(T_Ali, Px(50), Px(109), Px(70), Px(119)),
      Word(T_X, Px(70), Px(174), Px(80), Px(184)),
      Word(T_Y, Px(64), Px(405), Px(84), Px(415)),
      Word(T_Z, Px(64), Px(431), Px(84), Px(441)),
      Word(T_W, Px(64), Px(530), Px(84), Px(540)) }

InitStage2 ==
    /\ disk = Stage2Disk
    /\ template_path \in {TPL_DEFAULT, TPL_WITH}
    /\ fields = LoadedFields(disk, template_path)
    /\ pdf_dimensions = LoadedDimensions(disk, template_path)
    /\ pdf_paths \in {<<Doc("form.pdf", head \o page, << >>)>> :
                         head \in Stage2Heads, page \in PagesOf(Stage2Pool, MaxWords)}
    /\ handles = {}
    /\ failed = {}
    /\ exc = NoException
    /\ main_pc = "none"
    /\ exit_status = << >>
    /\ output = << >>
    /\ idx = 0
    /\ pc = "loop"
    /\ all_data = << >>
    /\ status_raw = << >>
    /\ status_perkahwinan = << >>
    /\ template_to_use = << >>
    /\ offsets = << >>
    /\ all_fields = << >>
    /\ pasangan_fields = << >>
    /\ waris_fields = << >>
    /\ words = << >>
    /\ call = NoCall
    /\ field_words = << >>
    /\ result = 0
    /\ prev = NoPrev
    /\ TableIdle
    /\ BuilderIdle

NextStage2 ==
    \/ OpenPdf
    \/ Stage1
    \/ ReloadTemplate
    \/ KeepTemplate
    \/ DetectOffsets
    \/ ExtractFields
    \/ ExtractAnak
    \/ ReturnRecord

SpecStage2 == InitStage2 /\ [][NextStage2]_vars

-----------------------------------------------------------------------------
\* Properties of the batch (Spec).

\* The text holds KAHWIN, letter case apart.
HoldsKahwin(text) ==
    \E i \in 0..(Len(text) - 6) :
        \A k \in 1..6 : LowerChar(text[i + k]) = LowerChar(T_KAHWIN[k])

\* extract_from_pdf is past the reload of stage 2.
InStage2 == pc \in {"offsets", "fields", "anak", "return"}

\* C1: for every document of a batch, whatever was processed before it, the
\* field set of stage 2 is the field set of the variant its own status text
\* selects: template_with_pasangan.json if the text contains KAHWIN,
\* template_without_pasangan.json otherwise.
C1_Stage2UsesOwnVariant ==
    InStage2 =>
        LET variant == IF HoldsKahwin(status_raw) THEN TPL_WITH ELSE TPL_WITHOUT
        IN  variant \in DOMAIN disk /\ DOMAIN fields = DOMAIN disk[variant].fields

\* C2: the "with spouse" variant is selected if and only if the text extracted
\* from the status_perkahwinan box contains KAHWIN, letter case apart;
\* BERKAHWIN selects it, and BUJANG, an empty extraction and a template with no
\* status_perkahwinan field select the "without spouse" variant.
C2_SelectsByKahwin ==
    pc \in {"reload", "offsets", "fields", "anak", "return"} =>
        /\ template_to_use \in {TPL_WITH, TPL_WITHOUT}
        /\ template_to_use = TPL_WITH <=> HoldsKahwin(status_raw)
        /\ status_raw = T_BERKAHWIN => template_to_use = TPL_WITH
        /\ status_raw = T_BUJANG => template_to_use = TPL_WITHOUT
        /\ status_raw = << >> => template_to_use = TPL_WITHOUT
        /\ (pc = "reload" /\ F_STATUS \notin DOMAIN fields) => template_to_use = TPL_WITHOUT
        /\ (pc = "reload" /\ F_STATUS \in DOMAIN fields) =>
               status_raw = ExtractTextFromBox(words, fields[F_STATUS], 0, Px(5))

\* Stage 1 has read a status in mixed case and selected the "with spouse"
\* variant.
C2_Witness ==
    /\ pc = "reload"
    /\ status_raw = T_Berkahwin
    /\ template_to_use = TPL_WITH

-----------------------------------------------------------------------------
\* Properties of extract_text_from_box (SpecBox).

Count(seq, r) == Cardinality({i \in DOMAIN seq : seq[i] = r})
Range(seq) == {seq[i] : i \in DOMAIN seq}
IsPrefix(p, s) == Len(p) <= Len(s) /\ SubSeq(s, 1, Len(p)) = p

\* field_words holds exactly the words of the page that satisfy Sel, each as
\* often as the page holds it.
HoldsExactly(Sel(_)) ==
    \A w \in Range(words) \cup Range(field_words) :
        Count(field_words, w) = IF Sel(w) THEN Count(words, w) ELSE 0

\* field_words is in ascending (top, x0) order.
Ascending ==
    \A i, j \in DOMAIN field_words :
        i < j => \/ field_words[i].top < field_words[j].top
                 \/ /\ field_words[i].top = field_words[j].top
                    /\ field_words[i].x0 <= field_words[j].x0

\* The result is the texts of field_words joined by single spaces, less a tail
\* of trailing punctuation characters.
ResultIsJoinedTexts ==
    LET joined == Join(<<SP>>, Texts(field_words))
    IN  /\ IsPrefix(result, joined)
        /\ \A k \in (Len(result) + 1)..Len(joined) : joined[k] \in {":", ";", ",", "."}

ZeroCall == call.op = "extract" /\ call.y_offset = 0 /\ call.tolerance = 0

\* C4 (as stated): with y_offset = 0 and tolerance = 0 the result is the
\* concatenation, in top-then-left order, of the words strictly inside the box;
\* a word on the box edge or outside it is excluded.
C4_StrictlyInside ==
    ZeroCall =>
        LET b == call.box
            Strict(w) == /\ b.x < w.x0 /\ w.x0 < b.x + b.width
                         /\ b.y < w.top /\ w.top < b.y + b.height
        IN  HoldsExactly(Strict) /\ Ascending /\ ResultIsJoinedTexts

\* C4 (amended): with y_offset = 0 and tolerance = 0 the result is built, in
\* top-then-left order, from exactly the words whose x0 and top lie inside the
\* box with its edges included: a word on an edge is included, a word one pixel
\* or more outside is excluded.
C4_EdgesIncluded ==
    ZeroCall =>
        LET b == call.box
            OnOrInside(w) == /\ b.x <= w.x0 /\ w.x0 <= b.x + b.width
                             /\ b.y <= w.top /\ w.top <= b.y + b.height
            OutsideByOnePx(w) == \/ w.x0 <= b.x - Px(1) \/ w.x0 >= b.x + b.width + Px(1)
                                 \/ w.top <= b.y - Px(1) \/ w.top >= b.y + b.height + Px(1)
        IN  /\ HoldsExactly(OnOrInside)
            /\ \A w \in Range(words) : OutsideByOnePx(w) => Count(field_words, w) = 0
            /\ Ascending
            /\ ResultIsJoinedTexts

\* A zero-offset, zero-tolerance call that kept a word on the box edge and
\* dropped a word one pixel outside.
C4_Witness ==
    /\ ZeroCall
    /\ \E w \in Range(field_words) : w.x0 = call.box.x \/ w.top = call.box.y + call.box.height
    /\ \E w \in Range(words) : w.x0 = call.box.x - Px(1) /\ Count(field_words, w) = 0

\* C5: the selected words are exactly those with x <= x0 <= x+width and
\* y+y_offset-tolerance <= top <= y+y_offset+height+tolerance (x1 and bottom
\* play no part), and their texts make up the result in ascending (top, x0)
\* order whatever the page order.
C5_SelectsByX0AndTop ==
    call.op = "extract" =>
        LET b == call.box
            lo == b.y + call.y_offset - call.tolerance
            hi == b.y + call.y_offset + b.height + call.tolerance
            Selected(w) == /\ b.x <= w.x0 /\ w.x0 <= b.x + b.width
                           /\ lo <= w.top /\ w.top <= hi
        IN  HoldsExactly(Selected) /\ Ascending /\ ResultIsJoinedTexts

\* A call with an offset and a tolerance that selected a word reaching past the
\* box with x1 and bottom, and put the selected words in another order than
\* the page has them.
C5_Witness ==
    /\ call.op = "extract" /\ call.y_offset # 0 /\ call.tolerance # 0
    /\ Len(field_words) >= 2
    /\ \E w \in Range(field_words) :
           /\ w.x1 > call.box.x + call.box.width
           /\ w.bottom > call.box.y + call.y_offset + call.box.height + call.tolerance
    /\ \E i, j \in DOMAIN words :
           /\ i < j
           /\ Count(field_words, words[i]) > 0 /\ Count(field_words, words[j]) > 0
           /\ KeyLess(words[j], words[i])

\* C6: the result has no leading or trailing whitespace, no run of two or
\* more whitespace characters, and does not end with one of : ; , .
C6_CleanResult ==
    call.op = "extract" =>
        /\ result # << >> => ~IsSpace(result[1]) /\ ~IsSpace(result[Len(result)])
        /\ \A k \in 1..(Len(result) - 1) : ~(IsSpace(result[k]) /\ IsSpace(result[k + 1]))
        /\ result # << >> => result[Len(result)] \notin {":", ";", ",", "."}

-----------------------------------------------------------------------------
\* Properties of detect_section_offset (SpecOffset).

DetectCall(h) == call.op = "detect" /\ call.header = h

\* The page is the word MAKLUMAT at (100, 500) and the word WARIS at (160, 503),
\* both in the x window of the kin header box, whose y is 480.
C3_Case ==
    /\ DetectCall(H_WARIS)
    /\ H_WARIS \in DOMAIN fields
    /\ fields[H_WARIS].y = Px(480)
    /\ Len(words) = 2
    /\ \E i, j \in DOMAIN words :
           /\ words[i].text = T_MAKLUMAT /\ words[i].x0 = Px(100) /\ words[i].top = Px(500)
           /\ words[j].text = T_WARIS /\ words[j].x0 = Px(160) /\ words[j].top = Px(503)
    /\ \A i \in DOMAIN words :
           /\ fields[H_WARIS].x - Px(20) <= words[i].x0
           /\ words[i].x0 <= fields[H_WARIS].x + fields[H_WARIS].width + Px(20)

\* C3 (as stated): in that case the function returns 503 - 480 = 23.
C3_Returns23 == C3_Case => result = 23

\* C3 (amended): in that case the function returns 500 - 480 = 20, the offset
\* of the MAKLUMAT word of the pair.
C3_Returns20 == C3_Case => result = 20

C3_Witness == C3_Case /\ result = 20

\* C8: detect_section_offset returns 0 when the header field is not in the
\* template, and when no word of the page matches a keyword of the header
\* inside the x window [x-20, x+width+20] and the y window (50 around the
\* box's y, 200 for the kin header).
C8_ZeroWithoutCandidate ==
    call.op = "detect" =>
        LET h == call.header
            range == IF h = H_WARIS THEN Px(200) ELSE Px(50)
            Matches(w) ==
                /\ \E kw \in HeaderKeywords(h) : Contains(kw, Upper(w.text))
                /\ fields[h].x - Px(20) <= w.x0
                /\ w.x0 <= fields[h].x + fields[h].width + Px(20)
                /\ Abs(w.top - fields[h].y) <= range
        IN  (h \notin DOMAIN fields \/ \A w \in Range(words) : ~Matches(w)) => result = 0

\* A call for a general header of the template on a page whose only keyword
\* word in the x window lies more than 50 below the box: the result is 0.
C8_Witness ==
    /\ call.op = "detect" /\ call.header = H_PASANGAN /\ H_PASANGAN \in DOMAIN fields
    /\ \E w \in Range(words) :
           /\ Contains(T_MAKLUMAT, w.text)
           /\ w.top - fields[H_PASANGAN].y > Px(50)
           /\ w.top - fields[H_PASANGAN].y <= Px(200)
    /\ \A w \in Range(words) : Abs(w.top - fields[H_PASANGAN].y) > Px(50)
    /\ result = 0

-----------------------------------------------------------------------------
\* Properties of the two queries together (SpecQuery).

-----------------------------------------------------------------------------
\* Properties of extract_anak_table (SpecTable).

\* The header row's upper-cased text has NAMA, MYKAD or MYKID, and UMUR.
HasChildrenMarkers(table) ==
    /\ table # << >>
    /\ Contains(T_NAMA, HeaderText(table[1]))
    /\ Contains(T_MYKAD, HeaderText(table[1])) \/ Contains(T_MYKID, HeaderText(table[1]))
    /\ Contains(T_UMUR, HeaderText(table[1]))

\* C9: extract_anak_table accepts the first table, in page order, whose header
\* row's upper-cased text contains NAMA, contains MYKAD or MYKID, and contains
\* UMUR; a table missing one of the three markers is passed over.  (Stated for
\* the tables that have a data row: the code passes over, before it looks at
\* the header, a table with no row under its header.)
C9_AcceptsFirstMarkedTable ==
    call.op = "anak" =>
        LET marked == {k \in DOMAIN tables :
                          Len(tables[k]) >= 2 /\ HasChildrenMarkers(tables[k])}
        IN  anak_table = IF marked = {} THEN 0
                         ELSE CHOOSE k \in marked : \A m \in marked : k <= m

\* The canonical key of a column header, by the first rule that applies.
KeyOfHeader(h) ==
    LET n == Lower(h)
    IN  IF h = NoneCell THEN NoKey
        ELSE IF Contains(T_nama, n) THEN "nama"
        ELSE IF Contains(T_mykad, n) \/ Contains(T_mykid, n) THEN "no_mykad"
        ELSE IF Contains(T_umur, n) THEN "umur"
        ELSE IF Contains(T_status, n) \/ Contains(T_hubungan, n) THEN "status"
        ELSE NoKey

\* The record of a data row, given the keys of the columns: each cell under
\* the key of its column, the rightmost cell of a key if several columns
\* share it.
RecordOfRow(row, keys) ==
    LET cols == {i \in DOMAIN row \cap DOMAIN keys : keys[i] # NoKey}
        Rightmost(k) == CHOOSE i \in cols :
                            keys[i] = k /\ \A j \in cols : keys[j] = k => j <= i
    IN  [k \in {keys[i] : i \in cols} |->
            IF row[Rightmost(k)] = NoneCell THEN << >> ELSE Strip(row[Rightmost(k)])]

EntirelyEmpty(row) ==
    \A i \in DOMAIN row : row[i] = NoneCell \/ \A c \in Range(row[i]) : IsSpace(c)

AliRecord == [nama |-> S_Ali, no_mykad |-> S_MyKadNo, umur |-> S_12, status |-> S_Anak]

\* C10: for the accepted table the result holds, in row order, the record of
\* every data row that is not entirely empty and whose record is not empty;
\* the header Nama, No. MyKad/MyKid, Umur, Hubungan with the row Ali,
\* 990101-01-1234, 12, Anak gives the one record nama, no_mykad, umur, status;
\* with no qualifying table the result is the empty list.
C10_RecordsOfRows ==
    call.op = "anak" =>
        /\ anak_table # 0 =>
               LET table == tables[anak_table]
                   keys == [i \in DOMAIN table[1] |-> KeyOfHeader(table[1][i])]
                   kept == SelectSeq(Tail(table),
                                     LAMBDA row : /\ ~EntirelyEmpty(row)
                                                  /\ \E i \in DOMAIN row \cap DOMAIN keys :
                                                         keys[i] # NoKey)
               IN  children = [n \in DOMAIN kept |-> RecordOfRow(kept[n], keys)]
        /\ tables = << <<HdrFull, RowAli>> >> => children = <<AliRecord>>
        /\ (\A k \in DOMAIN tables : ~HasChildrenMarkers(tables[k])) => children = << >>
        /\ anak_table = 0 => children = << >>

\* A call on a table with the form's header, a blank row and the row of the
\* example: the result is the one record of the example.
C10_Witness ==
    /\ call.op = "anak"
    /\ anak_table # 0
    /\ tables[anak_table] = <<HdrFull, RowBlank, RowAli>>
    /\ children = <<AliRecord>>

-----------------------------------------------------------------------------
\* Properties of the proximity sections (SpecSection).

\* The text holds sub, letter case apart.
Holds(sub, text) ==
    \E i \in 0..(Len(text) - Len(sub)) :
        \A k \in 1..Len(sub) : LowerChar(text[i + k]) = LowerChar(sub[k])

\* The page shows the header of a section: one word that holds MAKLUMAT and
\* the keyword, or a keyword word and a MAKLUMAT word less than 5px apart
\* vertically.
HasHeader(kw) ==
    \/ \E i \in DOMAIN words : Holds(T_MAKLUMAT, words[i].text) /\ Holds(kw, words[i].text)
    \/ \E i, j \in DOMAIN words :
           /\ Holds(kw, words[i].text)
           /\ Holds(T_MAKLUMAT, words[j].text)
           /\ Abs(words[i].top - words[j].top) < Px(5)

SectionKeyword == IF call.op = "waris" THEN T_WARIS ELSE T_PASANGAN
SectionLabels == IF call.op = "waris" THEN WarisLabels ELSE PasanganLabels

\* C11: extract_waris_section and extract_pasangan_section return the empty
\* mapping when the page has no word, and no pair of words less than 5px apart
\* vertically, that matches the header phrase; when the header is found the
\* mapping has an entry for every target key, and the entry of a label that no
\* word of the page holds is the empty string.
C11_SectionMapping ==
    call.op \in {"waris", "pasangan"} =>
        /\ ~HasHeader(SectionKeyword) => result = EmptyDict
        /\ HasHeader(SectionKeyword) =>
               /\ DOMAIN result = DOMAIN SectionLabels
               /\ \A k \in DOMAIN SectionLabels :
                      (\A i \in DOMAIN words : ~Holds(SectionLabels[k], words[i].text))
                          => result[k] = Str_EMPTY

\* The kin header is found in two words of one line; Nama has the value to its
\* right, and Hubungan, which the page does not show, has the empty string.
C11_Witness ==
    /\ call.op = "waris"
    /\ \A i \in DOMAIN words : ~Holds(T_MAKLUMAT, words[i].text) \/ ~Holds(T_WARIS, words[i].text)
    /\ HasHeader(T_WARIS)
    /\ result[SK_nama] = T_Ali
    /\ result[SK_hubungan] = Str_EMPTY

-----------------------------------------------------------------------------
\* Properties of the template builder (SpecBuilder).

\* The geometry the builder holds: what get_pdf_box gives for every box.
Geometry(bs) == [n \in DOMAIN bs |-> GetPdfBox(bs[n])]

LastOp(history) == IF history = << >> THEN "none" ELSE history[Len(history)]

\* C12: a reload made right after save_template gives every field the x, y,
\* width and height that were written, in the builder (refresh_boxes) and in
\* the extractor (load_template); and a save made right after that save and
\* reload leaves the template files as they are.
C12_RoundTrip ==
    [][ /\ (LastOp(ops) = "save" /\ LastOp(ops') = "refresh")
            => Geometry(boxes') = Geometry(boxes)
        /\ (LastOp(ops) = "save" /\ LastOp(ops') = "load_template")
            => /\ DOMAIN fields' = DOMAIN boxes
               /\ \A n \in DOMAIN boxes :
                      fields'[n] = [x |-> Px(boxes[n].pdf_x), y |-> Px(boxes[n].pdf_y),
                                    width |-> Px(boxes[n].pdf_width),
                                    height |-> Px(boxes[n].pdf_height)]
        /\ (Len(ops) >= 2 /\ ops[Len(ops) - 1] = "save" /\ LastOp(ops) = "refresh"
               /\ LastOp(ops') = "save")
            => template_files' = template_files ]_vars

\* An edited set of boxes has been saved, reloaded and saved again.
C12_Witness ==
    /\ ops = <<"save", "refresh", "save">>
    /\ edits > 0
    /\ boxes # << >>
    /\ Geometry(boxes) # INITIAL_BOXES
    /\ JsonLoadBoxes(template_files[TemplateFile(template_type)].fields) = Geometry(boxes)

-----------------------------------------------------------------------------
\* Properties of extract_multiple and of the document handle (Spec).

\* extract_from_pdf is at work on the document idx.
InDocument == pc \in {"stage1", "reload", "offsets", "fields", "anak", "return", "raised"}

\* The documents extract_multiple is through with, and those of them that did
\* not raise.
Finished == IF InDocument THEN 1..(idx - 1) ELSE 1..idx
Succeeded == Finished \ failed

\* The n-th member of a set of numbers, in ascending order.
Nth(S, n) == CHOOSE k \in S : Cardinality({m \in S : m < k}) = n - 1

\* C13: a document that raises does not stop extract_multiple: the loop is
\* left only after the last document; and the list holds one record for each
\* document that did not raise, in input order, and none for the others.
C13_BatchGoesOn ==
    /\ (~InDocument /\ ~(pc = "loop" /\ idx < Len(pdf_paths))) => idx = Len(pdf_paths)
    /\ Len(all_data) = Cardinality(Succeeded)
    /\ \A n \in 1..Len(all_data) :
           all_data[n][K_SOURCE_FILE] = pdf_paths[Nth(Succeeded, n)].path

\* The first document of a batch raised, and the second one gave its record.
C13_Witness ==
    /\ pc = "loop"
    /\ idx = Len(pdf_paths)
    /\ idx >= 2
    /\ failed = {1}
    /\ Len(all_data) = idx - 1
    /\ all_data[1][K_SOURCE_FILE] = pdf_paths[2].path

\* extract_from_pdf is inside its with block.
InsideWith == pc \in {"stage1", "reload", "offsets", "fields", "anak"}

\* C14: at most one document handle is open at any time; the handle of the
\* current document is open only while extract_from_pdf is inside its with
\* block: it is closed when the call has returned or raised (a failed reload of
\* stage 2 included) and so before the next document is opened.
C14_OneHandleAtATime ==
    /\ Cardinality(handles) <= 1
    /\ InsideWith => handles = {idx}
    /\ ~InsideWith => handles = {}

\* The reload of stage 2 has failed on a document that was open, and its
\* handle is closed.
C14_Witness ==
    /\ pc = "raised"
    /\ pdf_paths[idx].readable
    /\ template_to_use # << >>
    /\ ~TemplateLoads(disk, template_to_use)
    /\ handles = {}

\* C16: load_template rejects a malformed template, so the template that is
\* installed (by the constructor or by the reload of stage 2) never has a
\* field without x, y, width or height.
C16_MalformedRejected ==
    \A f \in DOMAIN fields : BoxReadable(fields[f])

\* C17: a failure while one field or one section offset is extracted stays
\* local: no step of stage 1, of the offset detection or of the loop over the
\* fields ends extract_from_pdf with an exception.
C17_FailureIsLocal ==
    [][(pc \in {"stage1", "offsets", "fields"}) => (pc' # "raised")]_vars

\* A field name without its leading prefix.
WithoutLeading(f, prefix) == SubSeq(f, Len(prefix) + 1, Len(f))

\* C18: the record of a document has every non-header field of the template
\* in effect, flat under its own name or, for a pasangan_ or waris_ field,
\* in its group under the name without that leading prefix; it has the list
\* anak, and no key that ends in _header.
C18_RecordShape ==
    pc = "return" =>
        /\ \A f \in DataFields(fields) :
               IF StartsWith(f, P_PASANGAN)
               THEN WithoutLeading(f, P_PASANGAN) \in DOMAIN all_fields[K_PASANGAN]
               ELSE IF StartsWith(f, P_WARIS)
               THEN WithoutLeading(f, P_WARIS) \in DOMAIN all_fields[K_WARIS]
               ELSE f \in DOMAIN all_fields
        /\ K_ANAK \in DOMAIN all_fields
        /\ \A k \in DOMAIN all_fields \cup DOMAIN all_fields[K_PASANGAN]
                    \cup DOMAIN all_fields[K_WARIS] : ~EndsWith(k, P_HEADER)


\* C20: for a general header (pemohon, pasangan, anak) of the template with
\* at least one keyword word inside the x window [x-20, x+width+20] and within
\* 50 of the box's y, detect_section_offset returns the difference between the
\* top of the first such word in page order and the box's y, rounded to the
\* nearest integer (a difference that ends in .5 may go either way).
C20_FirstCandidateRounded ==
    (call.op = "detect" /\ call.header # H_WARIS /\ call.header \in DOMAIN fields) =>
        LET h == call.header
            Matches(w) ==
                /\ \E kw \in HeaderKeywords(h) : Contains(kw, Upper(w.text))
                /\ fields[h].x - Px(20) <= w.x0
                /\ w.x0 <= fields[h].x + fields[h].width + Px(20)
                /\ Abs(w.top - fields[h].y) <= Px(50)
            found == {i \in DOMAIN words : Matches(words[i])}
        IN  found # {} =>
                LET i == CHOOSE j \in found : \A k \in found : j <= k
                    d == words[i].top - fields[h].y
                IN  2 * Abs(Px(result) - d) <= Sub

-----------------------------------------------------------------------------
\* Properties of main (SpecMain).

\* A file the pre-flight checks look for is missing.
PreflightFails ==
    \/ template_path \notin DOMAIN disk
    \/ \E i \in DOMAIN pdf_paths : ~pdf_paths[i].exists

\* C15: if the template file or any one of the PDF paths is missing, no
\* document is ever opened or extracted and no output file is written, and
\* the run ends with a status that is not zero.
C15_PreflightIsFatal ==
    PreflightFails =>
        /\ main_pc \in {"check_template", "check_pdfs", "exit"}
        /\ idx = 0 /\ pc = "none" /\ handles = {}
        /\ all_data = << >> /\ all_fields = << >>
        /\ output = << >>
        /\ main_pc = "exit" => (exit_status # << >> /\ exit_status[1] # 0)

\* The template and the first PDF exist, the second PDF does not: the run has
\* ended with status 1 and has opened nothing.
C15_Witness ==
    /\ main_pc = "exit"
    /\ exit_status = <<1>>
    /\ template_path \in DOMAIN disk
    /\ Len(pdf_paths) >= 2
    /\ pdf_paths[1].exists
    /\ ~pdf_paths[2].exists
    /\ idx = 0
    /\ output = << >>

\* C19: once the pre-flight checks have passed and a document has been taken,
\* the run ends only after the save step, with status 0.
C19_NoFailureIsFatal ==
    (main_pc = "exit" /\ idx > 0) => exit_status = <<EXIT_SUCCESS>>

-----------------------------------------------------------------------------
\* Further properties of detect_section_offset (SpecOffset).

\* C21: for the kin header, every word in the x window and within 200 of the
\* box's y that contains MAKLUMAT is a MAKLUMAT candidate and every such word
\* that contains WARIS is a WARIS candidate (a word with both is both); the
\* result is the offset of the first pair, MAKLUMAT candidates outermost, whose
\* tops differ by at most 5, and 0 if there is no such pair.  The offset of a
\* pair is accepted here from either of its tops and with either rounding.
C21_FirstPairOfBothSets ==
    (call.op = "detect" /\ call.header = H_WARIS /\ H_WARIS \in DOMAIN fields) =>
        LET tb == fields[H_WARIS]
            InWindow(w) ==
                /\ tb.x - Px(20) <= w.x0
                /\ w.x0 <= tb.x + tb.width + Px(20)
                /\ Abs(w.top - tb.y) <= Px(200)
            maks == {i \in DOMAIN words : InWindow(words[i])
                                          /\ Contains(T_MAKLUMAT, Upper(words[i].text))}
            wars == {i \in DOMAIN words : InWindow(words[i])
                                          /\ Contains(T_WARIS, Upper(words[i].text))}
            pairs == {p \in maks \X wars : Abs(words[p[1]].top - words[p[2]].top) <= Px(5)}
        IN  IF pairs = {} THEN result = 0
            ELSE LET first == CHOOSE p \in pairs : \A q \in pairs :
                                  p[1] < q[1] \/ (p[1] = q[1] /\ p[2] <= q[2])
                 IN  \E i \in {first[1], first[2]} :
                         Abs(Px(result) - (words[i].top - tb.y)) < Sub

-----------------------------------------------------------------------------
\* Properties of stage 2 (SpecStage2).

\* C22: after the loop over the fields, the text kept for every non-header
\* field is the text of its box read with the kin offset for a name that
\* starts with waris_, the spouse offset for pasangan_, the children offset
\* for anak_ and the applicant offset for any other name, and with tolerance
\* 3 for the field jantina and 5 for any other field.
C22_ParametersByName ==
    pc = "anak" =>
        \A f \in DOMAIN fields :
            ~EndsWith(f, P_HEADER) =>
                LET off == IF StartsWith(f, P_WARIS) THEN offsets.waris
                           ELSE IF StartsWith(f, P_PASANGAN) THEN offsets.pasangan
                           ELSE IF StartsWith(f, P_ANAK) THEN offsets.anak
                           ELSE offsets.pemohon
                    tol == IF f = F_JANTINA THEN 3 ELSE 5
                    text == ExtractTextFromBox(words, fields[f], Px(off), Px(tol))
                IN  IF StartsWith(f, P_PASANGAN)
                    THEN pasangan_fields[WithoutLeading(f, P_PASANGAN)] = text
                    ELSE IF StartsWith(f, P_WARIS)
                    THEN waris_fields[WithoutLeading(f, P_WARIS)] = text
                    ELSE all_fields[f] = text

\* The spouse header is shifted and the applicant header is not: the spouse's
\* name is read, and would not be with the applicant offset.
C22_Witness ==
    /\ pc = "anak"
    /\ F_PASANGAN_NAMA \in DOMAIN fields
    /\ offsets.pasangan # offsets.pemohon
    /\ pasangan_fields[F_NAMA] # Str_EMPTY
    /\ ExtractTextFromBox(words, fields[F_PASANGAN_NAMA], Px(offsets.pemohon), Px(5)) = Str_EMPTY

-----------------------------------------------------------------------------
\* Properties of the order of the steps of extract_from_pdf (Spec).

\* The place of a step in the call.
Rank(p) ==
    CASE p = "stage1" -> 1
      [] p = "reload" -> 2
      [] p = "offsets" -> 3
      [] p = "fields" -> 4
      [] p = "anak" -> 5
      [] p = "return" -> 6
      [] OTHER -> 0

\* C23: within one call of extract_from_pdf the steps follow each other in one
\* order and each is made once: the call begins with the variant decision,
\* which nothing changes later; the template is replaced only after the
\* decision and before the offsets; the four offsets are computed together,
\* once, after the reload step and before any field is read; the fields are
\* read with the offsets known; the children table is read after the fields.
C23_FixedOrder ==
    [][/\ (Rank(pc) \in 1..5) => (pc' = "raised" \/ Rank(pc') = Rank(pc) + 1)
       /\ (Rank(pc') = 1) => (pc = "loop" /\ idx' = idx + 1)
       /\ (Rank(pc') > 1) => (idx' = idx)
       /\ (template_to_use' # template_to_use) => (pc' = "stage1" \/ pc = "stage1")
       /\ (fields' # fields) =>
              (pc = "reload" /\ template_to_use # << >> /\ offsets = << >>)
       /\ (offsets' # offsets) =>
              (pc' = "stage1" \/ (pc = "offsets" /\ offsets = << >> /\ all_fields = << >>))
       /\ (all_fields' # all_fields) =>
              (pc' = "stage1" \/ (pc = "fields" /\ offsets # << >>) \/ pc = "anak")
       /\ (children' # children \/ anak_table' # anak_table) =>
              (pc' = "stage1" \/ (pc = "anak" /\ pc' = "return"))
      ]_vars

\* The second document of a batch has gone through every step: its variant's
\* template was loaded, its applicant header is shifted, it has children.
C23_Witness ==
    /\ pc = "return"
    /\ idx = 2
    /\ template_to_use # PathName(template_path)
    /\ fields = LoadedFields(disk, template_to_use)
    /\ fields # LoadedFields(disk, template_path)
    /\ offsets.pemohon # 0
    /\ children # << >>

-----------------------------------------------------------------------------
\* Properties of the boxes of the template builder (SpecBuilder).

\* C24: the template files and INITIAL_BOXES have boxes of positive width and
\* height only, and whatever the operator moves and resizes, every box of the
\* editor has a positive PDF width and a positive PDF height, and so has
\* every box of every file save_template has written.
C24_PositiveDimensions ==
    /\ \A n \in DOMAIN boxes :
           GetPdfBox(boxes[n]).width > 0 /\ GetPdfBox(boxes[n]).height > 0
    /\ \A file \in DOMAIN template_files :
           \A n \in DOMAIN template_files[file].fields :
               /\ ParseNumber(template_files[file].fields[n].width) > 0
               /\ ParseNumber(template_files[file].fields[n].height) > 0

\* C27: a move of a box (a drag without a handle) leaves the PDF width and
\* the PDF height that get_pdf_box returns as they were, and a move by no
\* displacement leaves the PDF x and y as they were too.
C27_MoveKeepsSize ==
    [][\A n \in DOMAIN boxes :
           (/\ DragBox
            /\ n \in DOMAIN boxes'
            /\ boxes'[n] # boxes[n]) =>
               /\ GetPdfBox(boxes'[n]).width = GetPdfBox(boxes[n]).width
               /\ GetPdfBox(boxes'[n]).height = GetPdfBox(boxes[n]).height
               /\ (boxes'[n].x = boxes[n].x /\ boxes'[n].y = boxes[n].y) =>
                      /\ GetPdfBox(boxes'[n]).x = GetPdfBox(boxes[n]).x
                      /\ GetPdfBox(boxes'[n]).y = GetPdfBox(boxes[n]).y
      ]_vars

\* The display position of a corner of a box.
CornerAt(b, corner_type) ==
    CASE corner_type = "nw" -> <<b.x, b.y>>
      [] corner_type = "ne" -> <<b.x + b.width, b.y>>
      [] corner_type = "sw" -> <<b.x, b.y + b.height>>
      [] corner_type = "se" -> <<b.x + b.width, b.y + b.height>>
Opposite(corner_type) ==
    CASE corner_type = "nw" -> "se"
      [] corner_type = "ne" -> "sw"
      [] corner_type = "sw" -> "ne"
      [] corner_type = "se" -> "nw"

\* C28: a box resized by one of its corners keeps the diagonally opposite
\* corner where it was on the canvas, also when the drag would make the box
\* narrower or shorter than 10 pixels.
C28_OppositeCornerFixed ==
    [][\A n \in DOMAIN boxes, corner_type \in {"nw", "ne", "sw", "se"} :
           (/\ edits' = edits + 1
            /\ n \in DOMAIN boxes'
            /\ boxes'[n] = ResizeCorner(boxes[n], corner_type, 90, 140, Scale)
            /\ boxes'[n] # boxes[n]) =>
               CornerAt(boxes'[n], Opposite(corner_type))
                   = CornerAt(boxes[n], Opposite(corner_type))
      ]_vars

-----------------------------------------------------------------------------
\* Bounds of detect_section_offset (SpecOffset).

\* C25: the offset detect_section_offset returns is at most 50 in absolute
\* value for the applicant, spouse and children headers and at most 200 for
\* the kin header, whatever the page and the template.
C25_OffsetWithinWindow ==
    call.op = "detect" =>
        Abs(result) <= (IF call.header = H_WARIS THEN 200 ELSE 50)

\* A general header found exactly 50 below its box, and the kin header found
\* 196 below its box.
C25_Witness ==
    /\ call.op = "detect"
    /\ \/ call.header # H_WARIS /\ result = 50
       \/ call.header = H_WARIS /\ result = 196

-----------------------------------------------------------------------------
\* Independence of the documents of a batch (Spec).

\* What an extractor that has processed nothing yet does with a document: the
\* fields of its stage 2, whether the call returns, and the record it returns.
FreshFields(dsk, path, doc) ==
    LET to_use == TemplateFor(StatusText(StatusRaw(LoadedFields(dsk, path), doc.words)))
    IN  IF NeedsReload(to_use, path) THEN LoadedFields(dsk, to_use)
        ELSE LoadedFields(dsk, path)
FreshSucceeds(dsk, path, doc) ==
    /\ doc.readable
    /\ Stage1Reads(LoadedFields(dsk, path))
    /\ LET to_use == TemplateFor(StatusText(StatusRaw(LoadedFields(dsk, path), doc.words)))
       IN  NeedsReload(to_use, path) => TemplateLoads(dsk, to_use)
    /\ OffsetsRead(FreshFields(dsk, path, doc))
    /\ FieldsRead(FreshFields(dsk, path, doc))
FreshRecord(dsk, path, doc) ==
    LET flds == FreshFields(dsk, path, doc)
        offs == [pemohon |-> DetectSectionOffset(flds, doc.words, H_PEMOHON),
                 pasangan |-> DetectSectionOffset(flds, doc.words, H_PASANGAN),
                 anak |-> DetectSectionOffset(flds, doc.words, H_ANAK),
                 waris |-> DetectSectionOffset(flds, doc.words, H_WARIS)]
    IN  (K_WARIS :> GroupedFields(flds, doc.words, offs, P_WARIS))
        @@ (K_PASANGAN :> GroupedFields(flds, doc.words, offs, P_PASANGAN))
        @@ (K_ANAK :> ChildrenOfTable(doc.tables, AcceptedTable(doc.tables)))
        @@ FlatFields(flds, doc.words, offs)

\* C26: whatever documents the extractor has processed before, a document
\* gives the record (or the failure) it gives to an extractor that has
\* processed nothing before it.
C26_NoHistory ==
    /\ pc = "return" =>
           /\ FreshSucceeds(disk, template_path, pdf_paths[idx])
           /\ all_fields = FreshRecord(disk, template_path, pdf_paths[idx])
    /\ pc = "raised" => ~FreshSucceeds(disk, template_path, pdf_paths[idx])

====
